---------------------------- MODULE Spec2Model ----------------------------
(***************************************************************************)
(* A model of esp::gfx::PbrDrawable and esp::gfx::PbrShader                *)
(* (src/esp/gfx/PbrDrawable.cpp, src/esp/gfx/PbrShader.cpp).               *)
(*                                                                         *)
(* Conventions.                                                            *)
(*  - A PbrShader::Flags value is the set of the bits that are set; the    *)
(*    name of a bit is the name of the enumerator that introduces it.      *)
(*    operator| is \cup, "flags & F" (converted to bool) is HasAny and      *)
(*    "flags >= F" (Corrade EnumSet: superset) is Superset.                 *)
(*  - A float is an integer count of hundredths (0.3 is 30, 1.0 is 100).   *)
(*    A colour is one such number (a grey level), a Matrix3 is an id with  *)
(*    0 the identity, a texture pointer is an id > 0.                      *)
(*  - An optional attribute or layer is <<>> (absent) or <<v>> (present).  *)
(*  - An angle is a whole number of quarter turns.                         *)
(***************************************************************************)
EXTENDS Integers, Sequences, FiniteSets, TLC

(***************************************************************************)
(* PbrShader::Flag.  The enumerators' values are declared in PbrShader.h;  *)
(* a layer-texture enumerator is its own bit combined with the bit of its  *)
(* layer (PbrDrawable.cpp:266, "also covers flags_ |= AnisotropyLayer"),   *)
(* and InstancedObjectId is its own bit combined with ObjectId.            *)
(***************************************************************************)
BaseColorTexture == {"BaseColorTexture"}
NoneRoughnessMetallicTexture == {"NoneRoughnessMetallicTexture"}
NormalTexture == {"NormalTexture"}
EmissiveTexture == {"EmissiveTexture"}
TextureTransformation == {"TextureTransformation"}
PrecomputedTangent == {"PrecomputedTangent"}
ObjectId == {"ObjectId"}
InstancedObjectId == {"InstancedObjectId", "ObjectId"}
DoubleSided == {"DoubleSided"}
ClearCoatLayer == {"ClearCoatLayer"}
ClearCoatTexture == {"ClearCoatTexture", "ClearCoatLayer"}
ClearCoatRoughnessTexture == {"ClearCoatRoughnessTexture", "ClearCoatLayer"}
ClearCoatNormalTexture == {"ClearCoatNormalTexture", "ClearCoatLayer"}
SpecularLayer == {"SpecularLayer"}
SpecularLayerTexture == {"SpecularLayerTexture", "SpecularLayer"}
SpecularLayerColorTexture == {"SpecularLayerColorTexture", "SpecularLayer"}
AnisotropyLayer == {"AnisotropyLayer"}
AnisotropyLayerTexture == {"AnisotropyLayerTexture", "AnisotropyLayer"}
TransmissionLayer == {"TransmissionLayer"}
TransmissionLayerTexture == {"TransmissionLayerTexture", "TransmissionLayer"}
VolumeLayer == {"VolumeLayer"}
VolumeLayerThicknessTexture == {"VolumeLayerThicknessTexture", "VolumeLayer"}
ImageBasedLighting == {"ImageBasedLighting"}
ShadowsVSM == {"ShadowsVSM"}
DebugDisplay == {"DebugDisplay"}

\* The bits of the underlying 64-bit integer, lowest first.
FlagBits ==
  << "BaseColorTexture", "NoneRoughnessMetallicTexture", "NormalTexture",
     "EmissiveTexture", "TextureTransformation", "PrecomputedTangent",
     "ObjectId", "InstancedObjectId", "DoubleSided",
     "ClearCoatLayer", "ClearCoatTexture", "ClearCoatRoughnessTexture",
     "ClearCoatNormalTexture",
     "SpecularLayer", "SpecularLayerTexture", "SpecularLayerColorTexture",
     "AnisotropyLayer", "AnisotropyLayerTexture",
     "TransmissionLayer", "TransmissionLayerTexture",
     "VolumeLayer", "VolumeLayerThicknessTexture",
     "ImageBasedLighting", "ShadowsVSM", "DebugDisplay" >>

AllFlagBits == {FlagBits[i] : i \in 1..Len(FlagBits)}

\* bool(flags & F)
HasAny(flags, F) == flags \cap F # {}

\* flags >= F : Corrade::Containers::EnumSet, "flags is a superset of F"
Superset(flags, F) == F \subseteq flags

RECURSIVE UnderlyingFrom(_, _)
UnderlyingFrom(flags, i) ==
  IF i > Len(FlagBits) THEN 0
  ELSE (IF FlagBits[i] \in flags THEN 2 ^ (i - 1) ELSE 0)
       + UnderlyingFrom(flags, i + 1)

\* static_cast<PbrShader::Flags::UnderlyingType>(flags)
FlagsUnderlying(flags) == UnderlyingFrom(flags, 1)

(***************************************************************************)
(* Floats in hundredths.                                                   *)
(***************************************************************************)
Inf == 1000000

\* Mn::Math::clamp(v, lo, hi)
clamp(v, lo, hi) == IF v < lo THEN lo ELSE IF v > hi THEN hi ELSE v

\* Mn::Math::abs(v)
abs(v) == IF v < 0 THEN 0 - v ELSE v

\* Mn::Vector2{Mn::Complex::rotation(Mn::Rad{a})} = (cos a, sin a), for an
\* angle of a quarter turns.
rotation(a) ==
  CASE a % 4 = 0 -> <<100, 0>>
    [] a % 4 = 1 -> <<0, 100>>
    [] a % 4 = 2 -> <<-100, 0>>
    [] OTHER     -> <<0, -100>>

(***************************************************************************)
(* Magnum::Trade::MaterialData as the drawable reads it.                   *)
(***************************************************************************)
Has(a) == a # <<>>
Val(a) == a[1]
ValueOr(a, dflt) == IF Has(a) THEN Val(a) ELSE dflt

\* PbrMetallicRoughnessMaterialData / PbrClearCoatMaterialData accessors,
\* which substitute the attribute's documented default when it is absent.
baseColor(m) == ValueOr(m.baseColor, 100)
roughness(m) == ValueOr(m.roughness, 100)
metalness(m) == ValueOr(m.metalness, 100)
emissiveColor(m) == ValueOr(m.emissiveColor, 0)
commonTextureMatrix(m) == ValueOr(m.textureMatrix, 0)
normalTextureScale(m) == ValueOr(m.normalTextureScale, 100)
layerFactor(cc) == ValueOr(cc.layerFactor, 100)
ccRoughness(cc) == ValueOr(cc.roughness, 0)
ccNormalTextureScale(cc) == ValueOr(cc.normalTextureScale, 100)

\* hasLayer / findLayerId
hasLayer(layer) == Has(layer)

\* The material cache of a drawable before any extraction:
\* PbrDrawable::PBRMaterialCache's default member initialisers.
DefaultMatCache ==
  [ baseColor |-> 100, roughness |-> 100, metalness |-> 100,
    ior_Index |-> 150, emissiveColor |-> 0, textureMatrix |-> 0,
    baseColorTexture |-> 0, noneRoughnessMetallicTexture |-> 0,
    normalTexture |-> 0, normalTextureScale |-> 100, emissiveTexture |-> 0,
    clearCoat |-> [ factor |-> 100, roughnessFactor |-> 0, texture |-> 0,
                    roughnessTexture |-> 0, normalTexture |-> 0,
                    normalTextureScale |-> 100 ],
    specularLayer |-> [ factor |-> 100, colorFactor |-> 100, texture |-> 0,
                        colorTexture |-> 0 ],
    anisotropyLayer |-> [ factor |-> 0, direction |-> <<100, 0>>,
                          rotation |-> 0, texture |-> 0 ],
    transmissionLayer |-> [ factor |-> 0, texture |-> 0 ],
    volumeLayer |-> [ thicknessFactor |-> 0, thicknessTexture |-> 0,
                      attenuationDist |-> Inf, attenuationColor |-> 100 ] ]

(***************************************************************************)
(* PbrDrawable::setMaterialValuesInternal: the flags it derives.  hasTangent *)
(* is meshAttributeFlags_ & Drawable::Flag::HasTangent.                    *)
(***************************************************************************)
\* Mutant of BaseFlags: a mesh with tangents sets PrecomputedTangent whether
\* or not the material has a normal texture.
BaseFlagsTangentAlways(m, hasTangent) ==
  ObjectId
  \cup (IF commonTextureMatrix(m) # 0 THEN TextureTransformation ELSE {})
  \cup (IF Has(m.baseColorTexture) THEN BaseColorTexture ELSE {})
  \cup (IF Has(m.noneRoughnessMetallicTexture)
          THEN NoneRoughnessMetallicTexture ELSE {})
  \cup (IF Has(m.normalTexture) THEN NormalTexture ELSE {})
  \cup (IF hasTangent THEN PrecomputedTangent ELSE {})
  \cup (IF Has(m.emissiveTexture) THEN EmissiveTexture ELSE {})
  \cup (IF m.hasPerVertexObjectId THEN InstancedObjectId ELSE {})
  \cup (IF m.doubleSided THEN DoubleSided ELSE {})

BaseFlags(m, hasTangent) ==
  ObjectId
  \cup (IF commonTextureMatrix(m) # 0 THEN TextureTransformation ELSE {})
  \cup (IF Has(m.baseColorTexture) THEN BaseColorTexture ELSE {})
  \cup (IF Has(m.noneRoughnessMetallicTexture)
          THEN NoneRoughnessMetallicTexture ELSE {})
  \cup (IF Has(m.normalTexture)
          THEN NormalTexture
               \cup (IF hasTangent THEN PrecomputedTangent ELSE {})
          ELSE {})
  \cup (IF Has(m.emissiveTexture) THEN EmissiveTexture ELSE {})
  \cup (IF m.hasPerVertexObjectId THEN InstancedObjectId ELSE {})
  \cup (IF m.doubleSided THEN DoubleSided ELSE {})

\* Mutants of ClearCoatFlags: the layer is enabled from factor 0 on; the
\* texture flags are set whatever the factor is and a layer whose factor
\* is not positive has its layer bit cleared.
ClearCoatFlagsAtZero(m) ==
  IF hasLayer(m.clearCoat) /\ layerFactor(Val(m.clearCoat)) >= 0
  THEN LET cc == Val(m.clearCoat) IN
       ClearCoatLayer
       \cup (IF Has(cc.layerFactorTexture) THEN ClearCoatTexture ELSE {})
       \cup (IF Has(cc.roughnessTexture)
               THEN ClearCoatRoughnessTexture ELSE {})
       \cup (IF Has(cc.normalTexture) THEN ClearCoatNormalTexture ELSE {})
  ELSE {}

ClearCoatFlagsLayerCleared(m) ==
  IF hasLayer(m.clearCoat)
  THEN LET cc == Val(m.clearCoat)
           all == ClearCoatLayer
                  \cup (IF Has(cc.layerFactorTexture)
                          THEN ClearCoatTexture ELSE {})
                  \cup (IF Has(cc.roughnessTexture)
                          THEN ClearCoatRoughnessTexture ELSE {})
                  \cup (IF Has(cc.normalTexture)
                          THEN ClearCoatNormalTexture ELSE {}) IN
       IF layerFactor(cc) > 0 THEN all ELSE all \ ClearCoatLayer
  ELSE {}

ClearCoatFlags(m) ==
  IF hasLayer(m.clearCoat) /\ layerFactor(Val(m.clearCoat)) > 0
  THEN LET cc == Val(m.clearCoat) IN
       ClearCoatLayer
       \cup (IF Has(cc.layerFactorTexture) THEN ClearCoatTexture ELSE {})
       \cup (IF Has(cc.roughnessTexture)
               THEN ClearCoatRoughnessTexture ELSE {})
       \cup (IF Has(cc.normalTexture) THEN ClearCoatNormalTexture ELSE {})
  ELSE {}

SpecularFlags(m) ==
  IF hasLayer(m.specular)
  THEN LET sp == Val(m.specular) IN
       SpecularLayer
       \cup (IF Has(sp.specularTexture) THEN SpecularLayerTexture ELSE {})
       \cup (IF Has(sp.specularColorTexture)
               THEN SpecularLayerColorTexture ELSE {})
  ELSE {}

\* Mutant of ResolvedStrength: a strength of 0 under the first name falls
\* through to the alias.
ResolvedStrengthAliasWhenZero(an) ==
  IF Has(an.anisotropyStrength) /\ Val(an.anisotropyStrength) # 0
  THEN an.anisotropyStrength
  ELSE an.anisotropy

\* The strength the code reads: "anisotropyStrength", else "anisotropy"
\* (lines 213-229); <<>> when neither is present.
ResolvedStrength(an) ==
  IF Has(an.anisotropyStrength) THEN an.anisotropyStrength
  ELSE an.anisotropy

\* The rotation the code reads: "anisotropyRotation", else
\* "anisotropyDirection" (lines 236-254).
ResolvedRotation(an) ==
  IF Has(an.anisotropyRotation) THEN an.anisotropyRotation
  ELSE an.anisotropyDirection

\* Mutant of AnisotropyFlags: the rotation does not enable the layer.
AnisotropyFlagsStrengthOnly(m) ==
  IF hasLayer(m.anisotropy)
  THEN LET an == Val(m.anisotropy)
           st == ResolvedStrength(an) IN
       (IF Has(st) /\ abs(Val(st)) > 0 THEN AnisotropyLayer ELSE {})
       \cup (IF Has(an.anisotropyTexture)
               THEN AnisotropyLayerTexture ELSE {})
  ELSE {}

AnisotropyFlags(m) ==
  IF hasLayer(m.anisotropy)
  THEN LET an == Val(m.anisotropy)
           st == ResolvedStrength(an)
           ro == ResolvedRotation(an) IN
       (IF Has(st) /\ abs(Val(st)) > 0 THEN AnisotropyLayer ELSE {})
       \cup (IF Has(ro) /\ Val(ro) # 0 THEN AnisotropyLayer ELSE {})
       \cup (IF Has(an.anisotropyTexture)
               THEN AnisotropyLayerTexture ELSE {})
  ELSE {}

TransmissionFlags(m) ==
  IF hasLayer(m.transmission)
  THEN TransmissionLayer
       \cup (IF Has(Val(m.transmission).transmissionTexture)
               THEN TransmissionLayerTexture ELSE {})
  ELSE {}

VolumeFlags(m) ==
  IF hasLayer(m.volume)
  THEN VolumeLayer
       \cup (IF Has(Val(m.volume).thicknessTexture)
               THEN VolumeLayerThicknessTexture ELSE {})
  ELSE {}

\* flags_ when setMaterialValuesInternal returns: it starts from
\* flags_ = ObjectId (line 54) and only ORs flags in.
MaterialFlags(m, hasTangent) ==
  BaseFlags(m, hasTangent) \cup ClearCoatFlags(m) \cup SpecularFlags(m)
  \cup AnisotropyFlags(m) \cup TransmissionFlags(m) \cup VolumeFlags(m)

(***************************************************************************)
(* PbrDrawable::setMaterialValuesInternal: matCache when it returns, from  *)
(* matCache as it was (old).  A field the code does not assign keeps its   *)
(* old value.                                                              *)
(***************************************************************************)
\* Mutant of ClearCoatCache: the layer factor is multiplied into the cached
\* factor.
ClearCoatCacheAccumulates(old, m) ==
  IF hasLayer(m.clearCoat) /\ layerFactor(Val(m.clearCoat)) > 0
  THEN LET cc == Val(m.clearCoat) IN
       [ factor |-> (old.factor * layerFactor(cc)) \div 100,
         roughnessFactor |-> ccRoughness(cc),
         texture |-> ValueOr(cc.layerFactorTexture, old.texture),
         roughnessTexture |-> ValueOr(cc.roughnessTexture,
                                      old.roughnessTexture),
         normalTexture |-> ValueOr(cc.normalTexture, old.normalTexture),
         normalTextureScale |->
           IF Has(cc.normalTexture) THEN ccNormalTextureScale(cc)
           ELSE old.normalTextureScale ]
  ELSE old

ClearCoatCache(old, m) ==
  IF hasLayer(m.clearCoat) /\ layerFactor(Val(m.clearCoat)) > 0
  THEN LET cc == Val(m.clearCoat) IN
       [ factor |-> layerFactor(cc),
         roughnessFactor |-> ccRoughness(cc),
         texture |-> ValueOr(cc.layerFactorTexture, old.texture),
         roughnessTexture |-> ValueOr(cc.roughnessTexture,
                                      old.roughnessTexture),
         normalTexture |-> ValueOr(cc.normalTexture, old.normalTexture),
         normalTextureScale |->
           IF Has(cc.normalTexture) THEN ccNormalTextureScale(cc)
           ELSE old.normalTextureScale ]
  ELSE old

\* Mutant of SpecularCache: the factor is stored as given.
SpecularCacheUnclamped(old, m) ==
  IF hasLayer(m.specular)
  THEN LET sp == Val(m.specular) IN
       [ factor |-> ValueOr(sp.specularFactor, old.factor),
         texture |-> ValueOr(sp.specularTexture, old.texture),
         colorFactor |-> ValueOr(sp.specularColorFactor, old.colorFactor),
         colorTexture |-> ValueOr(sp.specularColorTexture, old.colorTexture) ]
  ELSE old

SpecularCache(old, m) ==
  IF hasLayer(m.specular)
  THEN LET sp == Val(m.specular) IN
       [ factor |-> IF Has(sp.specularFactor)
                    THEN clamp(Val(sp.specularFactor), 0, 100)
                    ELSE old.factor,
         texture |-> ValueOr(sp.specularTexture, old.texture),
         colorFactor |-> ValueOr(sp.specularColorFactor, old.colorFactor),
         colorTexture |-> ValueOr(sp.specularColorTexture, old.colorTexture) ]
  ELSE old

AnisotropyCache(old, m) ==
  IF hasLayer(m.anisotropy)
  THEN LET an == Val(m.anisotropy)
           st == ResolvedStrength(an)
           ro == ResolvedRotation(an) IN
       [ factor |-> IF Has(st) /\ abs(Val(st)) > 0
                    THEN clamp(Val(st), -100, 100)
                    ELSE old.factor,
         direction |-> IF Has(ro) /\ Val(ro) # 0
                       THEN rotation(Val(ro))
                       ELSE old.direction,
         rotation |-> old.rotation,
         texture |-> ValueOr(an.anisotropyTexture, old.texture) ]
  ELSE old

TransmissionCache(old, m) ==
  IF hasLayer(m.transmission)
  THEN LET tr == Val(m.transmission) IN
       [ factor |-> ValueOr(tr.transmissionFactor, old.factor),
         texture |-> ValueOr(tr.transmissionTexture, old.texture) ]
  ELSE old

VolumeCache(old, m) ==
  IF hasLayer(m.volume)
  THEN LET vo == Val(m.volume) IN
       [ thicknessFactor |-> ValueOr(vo.thicknessFactor, old.thicknessFactor),
         thicknessTexture |-> ValueOr(vo.thicknessTexture,
                                      old.thicknessTexture),
         attenuationDist |->
           IF Has(vo.attenuationDistance) /\ Val(vo.attenuationDistance) > 0
           THEN Val(vo.attenuationDistance)
           ELSE old.attenuationDist,
         attenuationColor |-> ValueOr(vo.attenuationColor,
                                      old.attenuationColor) ]
  ELSE old

MaterialCache(old, m) ==
  [ baseColor |-> baseColor(m),
    roughness |-> roughness(m),
    metalness |-> metalness(m),
    emissiveColor |-> emissiveColor(m),
    textureMatrix |-> IF commonTextureMatrix(m) # 0
                      THEN commonTextureMatrix(m) ELSE old.textureMatrix,
    baseColorTexture |-> ValueOr(m.baseColorTexture, old.baseColorTexture),
    noneRoughnessMetallicTexture |->
      ValueOr(m.noneRoughnessMetallicTexture,
              old.noneRoughnessMetallicTexture),
    normalTexture |-> ValueOr(m.normalTexture, old.normalTexture),
    normalTextureScale |-> IF Has(m.normalTexture) THEN normalTextureScale(m)
                           ELSE old.normalTextureScale,
    emissiveTexture |-> ValueOr(m.emissiveTexture, old.emissiveTexture),
    ior_Index |-> IF hasLayer(m.ior) THEN ValueOr(Val(m.ior).ior, old.ior_Index)
                  ELSE old.ior_Index,
    clearCoat |-> ClearCoatCache(old.clearCoat, m),
    specularLayer |-> SpecularCache(old.specularLayer, m),
    anisotropyLayer |-> AnisotropyCache(old.anisotropyLayer, m),
    transmissionLayer |-> TransmissionCache(old.transmissionLayer, m),
    volumeLayer |-> VolumeCache(old.volumeLayer, m) ]

(***************************************************************************)
(* Magnum::ResourceManager as the drawable uses it (updateShader, lines    *)
(* 529-538).  The manager's data is a function from the keys it holds to   *)
(* [data, referenceCount]; data is <<>> until set() stores a shader.  A    *)
(* PbrShader instance is [id, flags_, lightCount_]; id tells instances     *)
(* apart the way their addresses do.                                       *)
(***************************************************************************)
NoKey == <<>>

\* Mutant of getShaderKey: the key leaves the light count out.
getShaderKeyFlagsOnly(lightCount, flags) == <<0, FlagsUnderlying(flags)>>

\* Corrade::Utility::formatString(SHADER_KEY_TEMPLATE, lightCount, flags):
\* the two numbers the template's placeholders are replaced by.
getShaderKey(lightCount, flags) == <<lightCount, FlagsUnderlying(flags)>>

\* ResourceManager::get(key): the Resource it returns counts as a reference;
\* a key the manager does not hold gets an entry with no data.
managerGet(res, key) ==
  IF key \in DOMAIN res
  THEN [res EXCEPT ![key].referenceCount = @ + 1]
  ELSE [k \in DOMAIN res \cup {key} |->
          IF k = key THEN [data |-> <<>>, referenceCount |-> 1] ELSE res[k]]

\* Mutant of managerRelease: the entry stays when its last reference goes
\* (ResourcePolicy::Resident).
managerReleaseKeepsEntry(res, key) ==
  IF key = NoKey \/ key \notin DOMAIN res THEN res
  ELSE [res EXCEPT ![key].referenceCount = @ - 1]

\* ~Resource / Resource::operator=: one reference less; with
\* ResourcePolicy::ReferenceCounted the entry is erased at zero.
managerRelease(res, key) ==
  IF key = NoKey \/ key \notin DOMAIN res THEN res
  ELSE IF res[key].referenceCount = 1
       THEN [k \in DOMAIN res \ {key} |-> res[k]]
       ELSE [res EXCEPT ![key].referenceCount = @ - 1]

\* ResourceManager::set(key, data, Final, ReferenceCounted)
managerSet(res, key, shader) ==
  IF key \in DOMAIN res /\ res[key].referenceCount > 0
  THEN [res EXCEPT ![key].data = <<shader>>]
  ELSE res

\* The ids of the shaders alive in the manager.
LiveIds(res) == {Val(res[k].data).id : k \in {x \in DOMAIN res : Has(res[x].data)}}

(***************************************************************************)
(* PbrShader::PbrShader (PbrShader.cpp lines 44-391), as functions of the  *)
(* flags and the light count it is given.                                  *)
(***************************************************************************)
\* Mutant of lightingIsEnabled: only the lights count.
lightingIsEnabledLightsOnly(flags, lightCount) == lightCount # 0

\* lightingIsEnabled_ (line 56)
lightingIsEnabled(flags, lightCount) ==
  lightCount # 0 \/ HasAny(flags, ImageBasedLighting)

\* Mutant of isTextured: the anisotropy layer counts by its texture only.
isTexturedByTexturesOnly(flags) ==
  \/ HasAny(flags, BaseColorTexture \cup NoneRoughnessMetallicTexture
                   \cup NormalTexture \cup EmissiveTexture)
  \/ Superset(flags, ClearCoatTexture)
  \/ Superset(flags, ClearCoatRoughnessTexture)
  \/ Superset(flags, ClearCoatNormalTexture)
  \/ Superset(flags, SpecularLayerTexture)
  \/ Superset(flags, SpecularLayerColorTexture)
  \/ Superset(flags, AnisotropyLayerTexture)
  \/ Superset(flags, TransmissionLayerTexture)
  \/ Superset(flags, VolumeLayerThicknessTexture)

\* isTextured_ (lines 58-74)
isTextured(flags) ==
  \/ HasAny(flags, BaseColorTexture \cup NoneRoughnessMetallicTexture
                   \cup NormalTexture \cup EmissiveTexture)
  \/ Superset(flags, ClearCoatTexture)
  \/ Superset(flags, ClearCoatRoughnessTexture)
  \/ Superset(flags, ClearCoatNormalTexture)
  \/ Superset(flags, SpecularLayerTexture)
  \/ Superset(flags, SpecularLayerColorTexture)
  \/ HasAny(flags, AnisotropyLayer)
  \/ Superset(flags, TransmissionLayerTexture)
  \/ Superset(flags, VolumeLayerThicknessTexture)

\* One #define of the sources: the macro, and the Flag enumerators the
\* condition it is written under tests (none for a test of isTextured_ or
\* of no condition).
Define(macro, flags) == [macro |-> macro, flags |-> flags]

\* attributeLocationsStream (lines 83-99)
attributeLocationsStream(flags, lightCount) ==
  {Define("ATTRIBUTE_LOCATION_POSITION", {}),
   Define("ATTRIBUTE_LOCATION_NORMAL", {})}
  \cup (IF /\ HasAny(flags, NormalTexture)
            /\ HasAny(flags, PrecomputedTangent)
            /\ lightingIsEnabled(flags, lightCount)
         THEN {Define("ATTRIBUTE_LOCATION_TANGENT4",
                      {"NormalTexture", "PrecomputedTangent"})}
         ELSE {})
  \cup (IF isTextured(flags)
         THEN {Define("ATTRIBUTE_LOCATION_TEXCOORD", {})}
         ELSE {})

\* outputAttributeLocationsStream (lines 113-117)
outputAttributeLocationsStream ==
  {Define("OUTPUT_ATTRIBUTE_LOCATION_COLOR", {}),
   Define("OUTPUT_ATTRIBUTE_LOCATION_OBJECT_ID", {})}

\* addSource(stream.str()): the definitions of a stream, as one source.
addStream(stage, defines) ==
  << [stage |-> stage, defines |-> defines, file |-> ""] >>

\* addSource(rs.getString(file)), under the condition c.
addFile(c, stage, file) ==
  IF c THEN << [stage |-> stage, defines |-> {}, file |-> file] >> ELSE <<>>

\* addSource(c ? "#define ..." : ""): one source that adds text when c
\* holds: the stage, the Flag enumerator c tests ("" when it tests none)
\* and the macros the text defines.
addSource(c, stage, flag, macros) ==
  IF c
  THEN << [stage |-> stage,
           defines |-> {Define(m, IF flag = "" THEN {} ELSE {flag}) :
                           m \in macros},
           file |-> ""] >>
  ELSE <<>>

\* Mutant of Sources: TEXTURE_TRANSFORMATION is defined for every variant.
SourcesAlwaysTransformed(flags, lightCount) ==
  addSource(TRUE, "vert", "TextureTransformation", {"TEXTURE_TRANSFORMATION"})

\* The sources of the vertex and the fragment shader (lines 101-179), in
\* order.
Sources(flags, lightCount) ==
  addStream("vert", attributeLocationsStream(flags, lightCount))
  \o addSource(isTextured(flags), "vert", "", {"TEXTURED"})
  \o addSource(HasAny(flags, NormalTexture), "vert", "NormalTexture",
               {"NORMAL_TEXTURE"})
  \o addSource(HasAny(flags, PrecomputedTangent), "vert",
               "PrecomputedTangent", {"PRECOMPUTED_TANGENT"})
  \o addSource(isTextured(flags) /\ HasAny(flags, TextureTransformation),
               "vert", "TextureTransformation", {"TEXTURE_TRANSFORMATION"})
  \o addFile(TRUE, "vert", "pbr.vert")
  \o addStream("frag", outputAttributeLocationsStream)
  \o addSource(HasAny(flags, ShadowsVSM), "frag", "ShadowsVSM",
               {"SHADOWS_VSM"})
  \o addSource(isTextured(flags), "frag", "", {"TEXTURED"})
  \o addSource(HasAny(flags, BaseColorTexture), "frag", "BaseColorTexture",
               {"BASECOLOR_TEXTURE"})
  \o addSource(HasAny(flags, EmissiveTexture), "frag", "EmissiveTexture",
               {"EMISSIVE_TEXTURE"})
  \o addSource(HasAny(flags, NoneRoughnessMetallicTexture), "frag",
               "NoneRoughnessMetallicTexture",
               {"NONE_ROUGHNESS_METALLIC_TEXTURE"})
  \o addSource(HasAny(flags, NormalTexture), "frag", "NormalTexture",
               {"NORMAL_TEXTURE"})
  \o addSource(HasAny(flags, ObjectId), "frag", "ObjectId", {"OBJECT_ID"})
  \o addSource(HasAny(flags, ClearCoatLayer), "frag", "ClearCoatLayer",
               {"CLEAR_COAT"})
  \o addSource(Superset(flags, ClearCoatTexture), "frag", "ClearCoatTexture",
               {"CLEAR_COAT_TEXTURE"})
  \o addSource(Superset(flags, ClearCoatRoughnessTexture), "frag",
               "ClearCoatRoughnessTexture", {"CLEAR_COAT_ROUGHNESS_TEXTURE"})
  \o addSource(Superset(flags, ClearCoatNormalTexture), "frag",
               "ClearCoatNormalTexture", {"CLEAR_COAT_NORMAL_TEXTURE"})
  \o addSource(HasAny(flags, SpecularLayer), "frag", "SpecularLayer",
               {"SPECULAR_LAYER"})
  \o addSource(Superset(flags, SpecularLayerTexture), "frag",
               "SpecularLayerTexture", {"SPECULAR_LAYER_TEXTURE"})
  \o addSource(Superset(flags, SpecularLayerColorTexture), "frag",
               "SpecularLayerColorTexture", {"SPECULAR_LAYER_COLOR_TEXTURE"})
  \o addSource(HasAny(flags, AnisotropyLayer), "frag", "AnisotropyLayer",
               {"ANISOTROPY_LAYER"})
  \o addSource(Superset(flags, AnisotropyLayerTexture), "frag",
               "AnisotropyLayerTexture", {"ANISOTROPY_LAYER_TEXTURE"})
  \o addSource(HasAny(flags, PrecomputedTangent), "frag",
               "PrecomputedTangent", {"PRECOMPUTED_TANGENT"})
  \o addSource(HasAny(flags, ImageBasedLighting), "frag",
               "ImageBasedLighting", {"IMAGE_BASED_LIGHTING", "TONE_MAP"})
  \o addSource(HasAny(flags, DebugDisplay), "frag", "DebugDisplay",
               {"PBR_DEBUG_DISPLAY"})
  \o addSource(TRUE, "frag", "", {"LIGHT_COUNT"})
  \o addFile(HasAny(flags, ShadowsVSM), "frag", "shadowsVSM.glsl")
  \o addFile(TRUE, "frag", "pbrCommon.glsl")
  \o addFile(TRUE, "frag", "pbrStructs.glsl")
  \o addFile(TRUE, "frag", "pbrMaterials.glsl")
  \o addFile(TRUE, "frag", "pbrLighting.glsl")
  \o addFile(TRUE, "frag", "pbrBSDF.glsl")
  \o addFile(TRUE, "frag", "pbr.frag")

\* The members the constructor assigns a uniformLocation to (lines
\* 230-327).
uniformLocations(flags, lightCount) ==
  LET lit == lightingIsEnabled(flags, lightCount) IN
  { "viewMatrixUniform_", "modelMatrixUniform_", "normalMatrixUniform_",
    "projMatrixUniform_", "baseColorUniform_", "roughnessUniform_",
    "metallicUniform_", "iorUniform_", "emissiveColorUniform_",
    "cameraWorldPosUniform_" }
  \cup (IF HasAny(flags, ObjectId) THEN {"objectIdUniform_"} ELSE {})
  \cup (IF isTextured(flags) /\ HasAny(flags, TextureTransformation)
        THEN {"textureMatrixUniform_"} ELSE {})
  \cup (IF lit /\ HasAny(flags, ClearCoatLayer)
        THEN {"clearCoatFactorUniform_", "clearCoatRoughnessUniform_"}
             \cup (IF Superset(flags, ClearCoatNormalTexture)
                   THEN {"clearCoatTextureScaleUniform_"} ELSE {})
        ELSE {})
  \cup (IF lit /\ HasAny(flags, SpecularLayer)
        THEN {"specularLayerFactorUniform_",
              "specularLayerColorFactorUniform_"}
        ELSE {})
  \cup (IF lit /\ HasAny(flags, AnisotropyLayer)
        THEN {"anisotropyLayerFactorUniform_",
              "anisotropyLayerDirectionUniform_"}
        ELSE {})
  \cup (IF lightCount # 0
        THEN {"lightRangesUniform_", "lightColorsUniform_",
              "lightDirectionsUniform_"}
        ELSE {})
  \cup (IF HasAny(flags, NormalTexture) /\ lit
        THEN {"normalTextureScaleUniform_"} ELSE {})
  \cup (IF HasAny(flags, ImageBasedLighting)
        THEN {"prefilteredMapMipLevelsUniform_"} ELSE {})
  \cup (IF lightCount # 0 /\ HasAny(flags, ImageBasedLighting)
        THEN {"componentScalesUniform_"} ELSE {})
  \cup (IF HasAny(flags, DebugDisplay) THEN {"pbrDebugDisplayUniform_"}
        ELSE {})

\* PbrShader::PbrEquationScales as declared: directDiffuse, directSpecular,
\* iblDiffuse, iblSpecular, each the full weight.
DefaultPbrEquationScales == <<100, 100, 100, 100>>

\* The scales the constructor uploads (lines 375-387).
PbrEquationScalesOf(flags, lightCount) ==
  IF lightCount # 0 /\ HasAny(flags, ImageBasedLighting)
  THEN <<50, 50, 50, 50>>
  ELSE DefaultPbrEquationScales

\* Mutant of ConstructorCalls: the scales are mixed whenever the variant
\* has image based lighting, and no light is filled in.
ConstructorCallsMixWithIbl(flags, lightCount) ==
  << <<"setPbrEquationScales",
       << IF HasAny(flags, ImageBasedLighting) THEN <<50, 50, 50, 50>>
          ELSE DefaultPbrEquationScales >> >> >>

\* The "reasonable defaults" the constructor sets (lines 330-390), in order.
ConstructorCalls(flags, lightCount) ==
  LET lit == lightingIsEnabled(flags, lightCount)
      If(c, calls) == IF c THEN calls ELSE <<>> IN
  << <<"setViewMatrix", <<>> >>,
     <<"setModelMatrix", <<>> >>,
     <<"setProjectionMatrix", <<>> >> >>
  \o If(lit,
        << <<"setBaseColor", <<70>> >>,
           <<"setRoughness", <<0>> >>,
           <<"setMetallic", <<100>> >>,
           <<"setIndexOfRefraction", <<150>> >> >>
        \o If(HasAny(flags, NormalTexture),
              << <<"setNormalTextureScale", <<100>> >> >>)
        \o << <<"setNormalMatrix", <<1>> >> >>
        \o If(HasAny(flags, ClearCoatLayer),
              << <<"setClearCoatFactor", <<0>> >>,
                 <<"setClearCoatRoughness", <<0>> >> >>
              \o If(Superset(flags, ClearCoatNormalTexture),
                    << <<"setClearCoatNormalTextureScale", <<100>> >> >>))
        \o If(HasAny(flags, SpecularLayer),
              << <<"setSpecularLayerFactor", <<100>> >>,
                 <<"setSpecularLayerColorFactor", <<100>> >> >>)
        \o If(HasAny(flags, AnisotropyLayer),
              << <<"setAnisotropyLayerFactor", <<0>> >>,
                 <<"setAnisotropyLayerDirection", << <<100, 0>> >> >> >>))
  \o If(lightCount # 0,
        << <<"setLightVectors", [i \in 1..lightCount |-> <<0, 0, -1, 0>>]>>,
           <<"setLightColors", [i \in 1..lightCount |-> 100]>>,
           <<"setLightRanges", [i \in 1..lightCount |-> Inf]>> >>)
  \o << <<"setEmissiveColor", <<0>> >>,
        <<"setPbrEquationScales", <<PbrEquationScalesOf(flags, lightCount)>> >> >>
  \o If(HasAny(flags, DebugDisplay), << <<"setDebugDisplay", <<0>> >> >>)

\* What the construction of a PbrShader did, as draw's log keeps it.
NoConstruction == [sources |-> <<>>, uniforms |-> {}, calls |-> <<>>]

Construction(flags, lightCount) ==
  [ sources |-> Sources(flags, lightCount),
    uniforms |-> uniformLocations(flags, lightCount),
    calls |-> ConstructorCalls(flags, lightCount) ]

\* new PbrShader{flags, lightCount}: a fresh object.
NewShader(res, flags, lightCount) ==
  [ id |-> CHOOSE i \in 1..(Cardinality(LiveIds(res)) + 1) :
             i \notin LiveIds(res),
    flags_ |-> flags,
    lightCount_ |-> lightCount,
    lightingIsEnabled_ |-> lightingIsEnabled(flags, lightCount),
    isTextured_ |-> isTextured(flags) ]

\* bool(shader_): the resource refers to loaded data.
Loaded(res, key) == key # NoKey /\ key \in DOMAIN res /\ Has(res[key].data)

(***************************************************************************)
(* The state.                                                              *)
(***************************************************************************)
VARIABLES
  alive,               \* the drawables that are constructed and not destroyed
  meshExists,          \* Drawable::glMeshExists(), per drawable
  meshAttributeFlags_, \* meshAttributeFlags_ & HasTangent, per drawable
  pbrIbl_,             \* pbrIbl_ is not null, per drawable
  materialData_,       \* the material each drawable was last given
  flags_,              \* PbrDrawable::flags_
  matCache,            \* PbrDrawable::matCache
  lightSetup_,         \* the key of the LightSetup each drawable refers to
  shader_,             \* the key of the shader each drawable holds, or NoKey
  shadowMapKeys_,      \* <<>>, or <<keys>>: shadowMapManger_ is set and
                       \* shadowMapKeys_ refers to keys, one BOOLEAN per
                       \* key: the manager holds a cube map for it
  lightSetups,         \* the LightSetups, by key: sequences of lights
  resources,           \* the ShaderManager's shaders
  frontFace,           \* the GL front-face winding
  gracefulAssert,      \* a failed CORRADE_ASSERT returns (else it aborts)
  halted,              \* the process has aborted
  last                 \* what the last operation did

vars == << alive, meshExists, meshAttributeFlags_, pbrIbl_, materialData_,
           flags_, matCache, lightSetup_, shader_, shadowMapKeys_,
           lightSetups, resources, frontFace, gracefulAssert, halted, last >>

Drawables == {1, 2}

\* esp::NO_LIGHT_KEY, the LightSetup with no light, and
\* esp::DEFAULT_LIGHTING_KEY, whose lights the simulator sets.
LightSetupKeys == {"no_lights", "default"}
MutableLightSetupKeys == {"default"}

\* Bounds of the model: the lights a LightSetup grows to, in Spec and in
\* SpecShare, and the shadow maps a drawable is given.
MaxLights == 1
MaxSharedLights == 3
MaxShadowKeys == 4

\* The lights of spec.md section 8: a directional fill light and a point light.
DirectionalLight == [color |-> 100, vector |-> <<0, 0, -1, 0>>]
PointLight == [color |-> 50, vector |-> <<1, 2, 3, 1>>]
LightKinds == {DirectionalLight, PointLight}

EmptyMaterial ==
  [ baseColor |-> <<>>, roughness |-> <<>>, metalness |-> <<>>,
    emissiveColor |-> <<>>, textureMatrix |-> <<>>,
    baseColorTexture |-> <<>>, noneRoughnessMetallicTexture |-> <<>>,
    normalTexture |-> <<>>, normalTextureScale |-> <<>>,
    emissiveTexture |-> <<>>,
    hasPerVertexObjectId |-> FALSE, doubleSided |-> FALSE,
    clearCoat |-> <<>>, ior |-> <<>>, specular |-> <<>>, anisotropy |-> <<>>,
    transmission |-> <<>>, volume |-> <<>> ]

EmptyClearCoat ==
  [ layerFactor |-> <<>>, roughness |-> <<>>, layerFactorTexture |-> <<>>,
    roughnessTexture |-> <<>>, normalTexture |-> <<>>,
    normalTextureScale |-> <<>> ]
EmptySpecular ==
  [ specularFactor |-> <<>>, specularTexture |-> <<>>,
    specularColorFactor |-> <<>>, specularColorTexture |-> <<>> ]
EmptyAnisotropy ==
  [ anisotropyStrength |-> <<>>, anisotropy |-> <<>>,
    anisotropyRotation |-> <<>>, anisotropyDirection |-> <<>>,
    anisotropyTexture |-> <<>> ]
EmptyTransmission == [ transmissionFactor |-> <<>>, transmissionTexture |-> <<>> ]
EmptyVolume ==
  [ thicknessFactor |-> <<>>, thicknessTexture |-> <<>>,
    attenuationDistance |-> <<>>, attenuationColor |-> <<>> ]

\* The materials the drawables of Spec are given: the base-colour-texture
\* material of spec.md section 8 and a layered one.
MatBaseColorTexture == [EmptyMaterial EXCEPT !.baseColorTexture = <<1>>]
MatLayered ==
  [EmptyMaterial EXCEPT
     !.textureMatrix = <<1>>,
     !.normalTexture = <<2>>,
     !.hasPerVertexObjectId = TRUE,
     !.clearCoat = << [EmptyClearCoat EXCEPT !.layerFactor = <<30>>,
                                             !.normalTexture = <<3>>] >>,
     !.specular = << [EmptySpecular EXCEPT !.specularFactor = <<150>>,
                                           !.specularTexture = <<4>>] >>,
     !.anisotropy = << [EmptyAnisotropy EXCEPT !.anisotropyTexture = <<5>>] >>,
     !.transmission = << EmptyTransmission >>,
     !.volume = << EmptyVolume >> ]
SysMaterials == {MatBaseColorTexture, MatLayered}

NoLast ==
  [ op |-> "none", d |-> 0, violation |-> "", lookedUp |-> FALSE,
    hit |-> FALSE, built |-> FALSE, shaderId |-> 0, normalDet |-> 0,
    useDrawableIds |-> FALSE,
    frontFaceBefore |-> "", drawFrontFace |-> "", calls |-> <<>>,
    constructed |-> NoConstruction ]

Log(op, d, violation) ==
  [NoLast EXCEPT !.op = op, !.d = d, !.violation = violation]

lightCountOf(d) == Len(lightSetups[lightSetup_[d]])

\* Mutant of NeedsShader: a change of the light count goes unnoticed.
NeedsShaderIgnoresLightCount(res, cur, flags, lightCount) ==
  \/ ~Loaded(res, cur)
  \/ Val(res[cur].data).flags_ # flags

\* Mutant of updateShader: a PbrShader is constructed and set on every
\* lookup, also when the manager holds one for the key.
updateShaderAlwaysBuilds(res, cur, flags, lightCount) ==
  IF ~Loaded(res, cur)
     \/ Val(res[cur].data).lightCount_ # lightCount
     \/ Val(res[cur].data).flags_ # flags
  THEN LET key  == getShaderKey(lightCount, flags)
           res1 == managerRelease(managerGet(res, key), cur)
           res2 == managerSet(res1, key, NewShader(res1, flags, lightCount))
       IN [ resources |-> res2, shader |-> key, lookedUp |-> TRUE,
            hit |-> Loaded(res1, key), built |-> TRUE, ok |-> TRUE ]
  ELSE [ resources |-> res, shader |-> cur, lookedUp |-> FALSE,
         hit |-> FALSE, built |-> FALSE, ok |-> TRUE ]

(***************************************************************************)
(* PbrDrawable::updateShader (lines 523-545), as a function of the         *)
(* manager's data, the key the drawable holds, its flags_ and the size of  *)
(* its LightSetup.  lookedUp: the manager was asked; hit: it held a loaded *)
(* shader for the key; built: a PbrShader was constructed; ok: the         *)
(* CORRADE_INTERNAL_ASSERT of line 540 holds.                              *)
(***************************************************************************)
NeedsShader(res, cur, flags, lightCount) ==
  \/ ~Loaded(res, cur)
  \/ Val(res[cur].data).lightCount_ # lightCount
  \/ Val(res[cur].data).flags_ # flags

updateShader(res, cur, flags, lightCount) ==
  IF NeedsShader(res, cur, flags, lightCount)
  THEN LET key  == getShaderKey(lightCount, flags)
           res1 == managerRelease(managerGet(res, key), cur)
           hit  == Loaded(res1, key)
           res2 == IF hit THEN res1
                   ELSE managerSet(res1, key,
                                   NewShader(res1, flags, lightCount))
       IN [ resources |-> res2, shader |-> key, lookedUp |-> TRUE,
            hit |-> hit, built |-> ~hit,
            ok |-> /\ Loaded(res2, key)
                   /\ Val(res2[key].data).lightCount_ = lightCount
                   /\ Val(res2[key].data).flags_ = flags ]
  ELSE [ resources |-> res, shader |-> cur, lookedUp |-> FALSE,
         hit |-> FALSE, built |-> FALSE, ok |-> TRUE ]

(***************************************************************************)
(* The calls PbrDrawable::draw makes on its shader, in order; a call is    *)
(* <<method, arguments>>.                                                  *)
(***************************************************************************)
When(c, calls) == IF c THEN calls ELSE <<>>

\* The id a drawable and its scene node carry.
drawableId(d) == 10 + d
semanticId(d) == 20 + d

\* getLightPositionRelativeToWorld(light, transformation, camera), for a
\* light given in world space.
getLightPositionRelativeToWorld(light) == light.vector

\* Mutant of FlipDirectional: the vector is uploaded as it is.
FlipNothing(pos) == pos

\* pos *= (pos[3] * 2) - 1  (line 577)
FlipDirectional(pos) == [i \in 1..4 |-> pos[i] * ((pos[4] * 2) - 1)]

\* Mutant of LightColors: every light is given the colour the constructor
\* fills in.
LightColorsDefault(lights) == [i \in 1..Len(lights) |-> 100]

\* updateShaderLightParameters (lines 548-561)
LightColors(lights) == [i \in 1..Len(lights) |-> lights[i].color]

\* updateShaderLightDirectionParameters (lines 564-584)
LightVectors(lights) ==
  [i \in 1..Len(lights) |->
     FlipDirectional(getLightPositionRelativeToWorld(lights[i]))]

LightCalls(lights) ==
  << <<"setLightColors", LightColors(lights)>>,
     <<"setLightVectors", LightVectors(lights)>> >>

\* Mutant of ObjectIdOf: any bit of InstancedObjectId in the flags counts.
ObjectIdOfAnyBit(d, flags, useDrawableIds) ==
  IF useDrawableIds THEN drawableId(d)
  ELSE IF HasAny(flags, InstancedObjectId) THEN 0 ELSE semanticId(d)

\* lines 375-394
ObjectIdOf(d, flags, useDrawableIds) ==
  IF useDrawableIds THEN drawableId(d)
  ELSE IF Superset(flags, InstancedObjectId) THEN 0 ELSE semanticId(d)

BaseCalls(d, flags, mc, useDrawableIds, normalDet) ==
  << <<"setObjectId", <<ObjectIdOf(d, flags, useDrawableIds)>> >>,
     <<"setProjectionMatrix", <<>> >>,
     <<"setViewMatrix", <<>> >>,
     <<"setModelMatrix", <<>> >>,
     <<"setNormalMatrix", <<normalDet>> >>,
     <<"setCameraWorldPosition", <<>> >>,
     <<"setBaseColor", <<mc.baseColor>> >>,
     <<"setRoughness", <<mc.roughness>> >>,
     <<"setMetallic", <<mc.metalness>> >>,
     <<"setIndexOfRefraction", <<mc.ior_Index>> >>,
     <<"setEmissiveColor", <<mc.emissiveColor>> >> >>

\* lines 401-421
TextureCalls(flags, mc) ==
  When(HasAny(flags, BaseColorTexture),
       << <<"bindBaseColorTexture", <<mc.baseColorTexture>> >> >>)
  \o When(HasAny(flags, NoneRoughnessMetallicTexture),
       << <<"bindMetallicRoughnessTexture",
            <<mc.noneRoughnessMetallicTexture>> >> >>)
  \o When(HasAny(flags, NormalTexture),
       << <<"bindNormalTexture", <<mc.normalTexture>> >>,
          <<"setNormalTextureScale", <<mc.normalTextureScale>> >> >>)
  \o When(HasAny(flags, EmissiveTexture),
       << <<"bindEmissiveTexture", <<mc.emissiveTexture>> >> >>)
  \o When(HasAny(flags, TextureTransformation),
       << <<"setTextureMatrix", <<mc.textureMatrix>> >> >>)

\* Mutant of LayerCalls: the layer textures are bound when any bit of their
\* flag is set.
LayerCallsAnyBit(flags, mc) ==
  When(HasAny(flags, ClearCoatTexture),
       << <<"bindClearCoatFactorTexture", <<mc.clearCoat.texture>> >> >>)
  \o When(HasAny(flags, SpecularLayerTexture),
       << <<"bindSpecularLayerTexture", <<mc.specularLayer.texture>> >> >>)
  \o When(HasAny(flags, AnisotropyLayerTexture),
       << <<"bindAnisotropyLayerTexture",
            <<mc.anisotropyLayer.texture>> >> >>)

\* lines 423-465
LayerCalls(flags, mc) ==
  When(HasAny(flags, ClearCoatLayer),
       << <<"setClearCoatFactor", <<mc.clearCoat.factor>> >>,
          <<"setClearCoatRoughness", <<mc.clearCoat.roughnessFactor>> >>,
          <<"setClearCoatNormalTextureScale",
            <<mc.clearCoat.normalTextureScale>> >> >>
       \o When(Superset(flags, ClearCoatTexture),
            << <<"bindClearCoatFactorTexture", <<mc.clearCoat.texture>> >> >>)
       \o When(Superset(flags, ClearCoatRoughnessTexture),
            << <<"bindClearCoatRoughnessTexture",
                 <<mc.clearCoat.roughnessTexture>> >> >>)
       \o When(Superset(flags, ClearCoatNormalTexture),
            << <<"bindClearCoatNormalTexture",
                 <<mc.clearCoat.normalTexture>> >> >>))
  \o When(HasAny(flags, SpecularLayer),
       << <<"setSpecularLayerFactor", <<mc.specularLayer.factor>> >>,
          <<"setSpecularLayerColorFactor",
            <<mc.specularLayer.colorFactor>> >> >>
       \o When(Superset(flags, SpecularLayerTexture),
            << <<"bindSpecularLayerTexture", <<mc.specularLayer.texture>> >> >>)
       \o When(Superset(flags, SpecularLayerColorTexture),
            << <<"bindSpecularLayerColorTexture",
                 <<mc.specularLayer.colorTexture>> >> >>))
  \o When(HasAny(flags, AnisotropyLayer),
       << <<"setAnisotropyLayerFactor", <<mc.anisotropyLayer.factor>> >>,
          <<"setAnisotropyLayerRotation",
            <<mc.anisotropyLayer.rotation>> >> >>
       \o When(Superset(flags, AnisotropyLayerTexture),
            << <<"bindAnisotropyLayerTexture",
                 <<mc.anisotropyLayer.texture>> >> >>))

\* lines 467-478
IblCalls(flags, hasIbl) ==
  When(HasAny(flags, ImageBasedLighting),
       << <<"CORRADE_INTERNAL_ASSERT", <<hasIbl>> >>,
          <<"bindIrradianceCubeMap", <<>> >>,
          <<"bindBrdfLUT", <<>> >>,
          <<"bindPrefilteredMap", <<>> >>,
          <<"setPrefilteredMapMipLevels", <<>> >> >>)

\* lines 485-496, one turn of the loop: the assertion that the manager
\* holds a cube map for the key, then the bindPointShadowMap by index
ShadowMapCalls(keys, iShadow) ==
  << <<"CORRADE_INTERNAL_ASSERT", <<keys[iShadow + 1]>> >>,
     <<"bindPointShadowMap", <<iShadow>> >> >>

\* lines 480-497: the two assertions, then the loop over the keys
ShadowCalls(flags, hasShadowData, keys) ==
  When(HasAny(flags, ShadowsVSM),
       << <<"CORRADE_INTERNAL_ASSERT", <<hasShadowData>> >>,
          <<"CORRADE_ASSERT", <<Len(keys) <= 3>> >> >>
       \o [j \in 1..(2 * Len(keys)) |->
             ShadowMapCalls(keys, (j - 1) \div 2)[2 - (j % 2)]])

\* Everything draw does after updateShader (lines 334-505), in order: the
\* calls on the shader, the assertions of draw itself and the calls of
\* Renderer::setFrontFace.
DrawSteps(d, flags, mc, lights, hasIbl, hasShadowData, keys, normalDet, useDrawableIds) ==
  LightCalls(lights)
  \o When(normalDet < 0, << <<"setFrontFace", <<"ClockWise">> >> >>)
  \o BaseCalls(d, flags, mc, useDrawableIds, normalDet)
  \o TextureCalls(flags, mc)
  \o LayerCalls(flags, mc)
  \o IblCalls(flags, hasIbl)
  \o ShadowCalls(flags, hasShadowData, keys)
  \o << <<"draw", <<>> >> >>
  \o When(normalDet < 0, << <<"setFrontFace", <<"CounterClockWise">> >> >>)

(***************************************************************************)
(* The CORRADE_ASSERTs of the PbrShader methods draw calls                 *)
(* (PbrShader.cpp lines 396-548, 577-583, 691-712, 780-806): whether the   *)
(* shader sh accepts the call.                                             *)
(***************************************************************************)
CallOk(sh, call) ==
  LET f == call[1]
      a == call[2]
      fl == sh.flags_ IN
  CASE f = "bindBaseColorTexture" -> HasAny(fl, BaseColorTexture)
    [] f = "bindMetallicRoughnessTexture" ->
         HasAny(fl, NoneRoughnessMetallicTexture)
    [] f = "bindNormalTexture" -> HasAny(fl, NormalTexture)
    [] f = "setNormalTextureScale" -> HasAny(fl, NormalTexture)
    [] f = "bindEmissiveTexture" -> HasAny(fl, EmissiveTexture)
    [] f = "setTextureMatrix" -> HasAny(fl, TextureTransformation)
    [] f = "bindClearCoatFactorTexture" -> Superset(fl, ClearCoatTexture)
    [] f = "bindClearCoatRoughnessTexture" ->
         Superset(fl, ClearCoatRoughnessTexture)
    [] f = "bindClearCoatNormalTexture" -> Superset(fl, ClearCoatNormalTexture)
    [] f = "bindSpecularLayerTexture" -> Superset(fl, SpecularLayerTexture)
    [] f = "bindSpecularLayerColorTexture" ->
         Superset(fl, SpecularLayerColorTexture)
    [] f = "bindAnisotropyLayerTexture" -> Superset(fl, AnisotropyLayerTexture)
    [] f \in {"bindIrradianceCubeMap", "bindBrdfLUT", "bindPrefilteredMap",
              "setPrefilteredMapMipLevels"} -> HasAny(fl, ImageBasedLighting)
    [] f = "bindPointShadowMap" ->
         a[1] >= 0 /\ a[1] < 3 /\ HasAny(fl, ShadowsVSM)
    [] f \in {"setLightColors", "setLightVectors"} -> sh.lightCount_ = Len(a)
    [] OTHER -> TRUE

\* The member through which a call the shader accepts calls setUniform
\* (PbrShader.cpp lines 550-817), "" when it uploads nothing: a setter
\* whose condition fails, setLightColors of no colour, a bind.
UniformOf(sh, call) ==
  LET f == call[1]
      lit(u) == IF sh.lightingIsEnabled_ THEN u ELSE "" IN
  CASE f = "setProjectionMatrix" -> "projMatrixUniform_"
    [] f = "setNormalMatrix" -> "normalMatrixUniform_"
    [] f = "setViewMatrix" -> "viewMatrixUniform_"
    [] f = "setModelMatrix" -> "modelMatrixUniform_"
    [] f = "setObjectId" ->
         IF HasAny(sh.flags_, ObjectId) THEN "objectIdUniform_" ELSE ""
    [] f = "setPrefilteredMapMipLevels" -> "prefilteredMapMipLevelsUniform_"
    [] f = "setBaseColor" -> lit("baseColorUniform_")
    [] f = "setEmissiveColor" -> "emissiveColorUniform_"
    [] f = "setRoughness" -> lit("roughnessUniform_")
    [] f = "setMetallic" -> lit("metallicUniform_")
    [] f = "setIndexOfRefraction" -> lit("iorUniform_")
    [] f = "setClearCoatFactor" -> lit("clearCoatFactorUniform_")
    [] f = "setClearCoatRoughness" -> lit("clearCoatRoughnessUniform_")
    [] f = "setClearCoatNormalTextureScale" ->
         lit("clearCoatTextureScaleUniform_")
    [] f = "setSpecularLayerFactor" -> lit("specularLayerFactorUniform_")
    [] f = "setSpecularLayerColorFactor" ->
         lit("specularLayerColorFactorUniform_")
    [] f = "setAnisotropyLayerFactor" -> lit("anisotropyLayerFactorUniform_")
    [] f = "setAnisotropyLayerDirection" ->
         lit("anisotropyLayerDirectionUniform_")
    [] f = "setPbrEquationScales" -> "componentScalesUniform_"
    [] f = "setDebugDisplay" -> "pbrDebugDisplayUniform_"
    [] f = "setCameraWorldPosition" -> "cameraWorldPosUniform_"
    [] f = "setTextureMatrix" ->
         IF sh.isTextured_ THEN "textureMatrixUniform_" ELSE ""
    [] f = "setLightVectors" -> "lightDirectionsUniform_"
    [] f = "setLightColors" ->
         IF Len(call[2]) > 0 THEN "lightColorsUniform_" ELSE ""
    [] f = "setNormalTextureScale" -> lit("normalTextureScaleUniform_")
    [] f = "setLightRanges" -> "lightRangesUniform_"
    [] OTHER -> ""

(***************************************************************************)
(* Running the steps of a draw.  A failed CORRADE_INTERNAL_ASSERT aborts;  *)
(* a failed CORRADE_ASSERT of draw returns from draw (or aborts); a call   *)
(* the shader refuses returns from that call only (or aborts).             *)
(***************************************************************************)
Failed(step) ==
  step[1] \in {"CORRADE_INTERNAL_ASSERT", "CORRADE_ASSERT"} /\ ~step[2][1]

StopsAt(sh, steps, graceful) ==
  LET stop == {i \in 1..Len(steps) :
                 \/ Failed(steps[i])
                 \/ ~graceful /\ ~CallOk(sh, steps[i])} IN
  IF stop = {} THEN 0 ELSE CHOOSE i \in stop : \A j \in stop : i <= j

\* The steps that run.
Executed(sh, steps, graceful) ==
  LET n == StopsAt(sh, steps, graceful) IN
  IF n = 0 THEN steps ELSE SubSeq(steps, 1, n)

\* The winding in force after the first n steps, from winding ff.
FrontFaceAfter(steps, n, ff) ==
  LET sets == {i \in 1..n : steps[i][1] = "setFrontFace"} IN
  IF sets = {} THEN ff
  ELSE steps[CHOOSE i \in sets : \A j \in sets : j <= i][2][1]

\* The winding in force when the mesh is drawn, "" when it is not drawn.
DrawFrontFace(steps, ff) ==
  LET at == {i \in 1..Len(steps) : steps[i][1] = "draw"} IN
  IF at = {} THEN ""
  ELSE FrontFaceAfter(steps, CHOOSE i \in at : TRUE, ff)

\* What went wrong first among the steps that ran ("" : nothing).
ViolationOf(sh, steps) ==
  LET bad == {i \in 1..Len(steps) :
                Failed(steps[i]) \/ ~CallOk(sh, steps[i])} IN
  IF bad = {} THEN ""
  ELSE LET s == steps[CHOOSE i \in bad : \A j \in bad : i <= j] IN
       IF s[1] = "CORRADE_INTERNAL_ASSERT" THEN "internal"
       ELSE IF s[1] = "CORRADE_ASSERT" THEN "shadowCount"
       ELSE "shader"

\* Whether the process aborts in the steps that ran.
Aborts(sh, steps, graceful) ==
  \E i \in 1..Len(steps) :
     \/ steps[i][1] = "CORRADE_INTERNAL_ASSERT" /\ Failed(steps[i])
     \/ ~graceful /\ (Failed(steps[i]) \/ ~CallOk(sh, steps[i]))

(***************************************************************************)
(* The operations.  last describes the last draw, setShadowData,           *)
(* destruction or reassignment of the material the drawable already had;   *)
(* every other operation clears it.                                        *)
(***************************************************************************)
Init ==
  /\ alive = [d \in Drawables |-> FALSE]
  /\ meshExists = [d \in Drawables |-> FALSE]
  /\ meshAttributeFlags_ = [d \in Drawables |-> FALSE]
  /\ pbrIbl_ = [d \in Drawables |-> FALSE]
  /\ materialData_ = [d \in Drawables |-> EmptyMaterial]
  /\ flags_ = [d \in Drawables |-> {}]
  /\ matCache = [d \in Drawables |-> DefaultMatCache]
  /\ lightSetup_ = [d \in Drawables |-> "no_lights"]
  /\ shader_ = [d \in Drawables |-> NoKey]
  /\ shadowMapKeys_ = [d \in Drawables |-> <<>>]
  /\ lightSetups = [k \in LightSetupKeys |-> <<>>]
  /\ resources = <<>>
  /\ frontFace = "CounterClockWise"
  /\ gracefulAssert \in BOOLEAN
  /\ halted = FALSE
  /\ last = NoLast

\* PbrDrawable::PbrDrawable (lines 21-45)
Construct(d, m, hasMesh, hasTangent, ibl, key) ==
  /\ ~halted /\ ~alive[d]
  /\ alive' = [alive EXCEPT ![d] = TRUE]
  /\ meshExists' = [meshExists EXCEPT ![d] = hasMesh]
  /\ meshAttributeFlags_' = [meshAttributeFlags_ EXCEPT ![d] = hasTangent]
  /\ pbrIbl_' = [pbrIbl_ EXCEPT ![d] = ibl]
  /\ lightSetup_' = [lightSetup_ EXCEPT ![d] = key]
  /\ materialData_' = [materialData_ EXCEPT ![d] = m]
  /\ matCache' = [matCache EXCEPT ![d] = MaterialCache(DefaultMatCache, m)]
  /\ flags_' = [flags_ EXCEPT ![d] =
                  MaterialFlags(m, hasTangent)
                  \cup (IF ibl THEN ImageBasedLighting ELSE {})]
  /\ last' = NoLast
  /\ UNCHANGED << shader_, shadowMapKeys_, lightSetups, resources, frontFace,
                  gracefulAssert, halted >>

\* ~PbrDrawable: the members are destroyed, shader_ releasing its reference.
Destroy(d) ==
  /\ ~halted /\ alive[d]
  /\ alive' = [alive EXCEPT ![d] = FALSE]
  /\ meshExists' = [meshExists EXCEPT ![d] = FALSE]
  /\ meshAttributeFlags_' = [meshAttributeFlags_ EXCEPT ![d] = FALSE]
  /\ pbrIbl_' = [pbrIbl_ EXCEPT ![d] = FALSE]
  /\ lightSetup_' = [lightSetup_ EXCEPT ![d] = "no_lights"]
  /\ materialData_' = [materialData_ EXCEPT ![d] = EmptyMaterial]
  /\ matCache' = [matCache EXCEPT ![d] = DefaultMatCache]
  /\ flags_' = [flags_ EXCEPT ![d] = {}]
  /\ shader_' = [shader_ EXCEPT ![d] = NoKey]
  /\ shadowMapKeys_' = [shadowMapKeys_ EXCEPT ![d] = <<>>]
  /\ resources' = managerRelease(resources, shader_[d])
  /\ last' = Log("destroy", d, "")
  /\ UNCHANGED << lightSetups, frontFace, gracefulAssert, halted >>

\* PbrDrawable::setMaterialValuesInternal (lines 47-322), on a drawable that
\* exists (setMaterialValues).
SetMaterialValues(d, m) ==
  /\ ~halted /\ alive[d]
  /\ materialData_' = [materialData_ EXCEPT ![d] = m]
  /\ flags_' = [flags_ EXCEPT ![d] = MaterialFlags(m, meshAttributeFlags_[d])]
  /\ matCache' = [matCache EXCEPT ![d] = MaterialCache(matCache[d], m)]
  /\ last' = IF materialData_[d] = m THEN Log("sameMaterial", d, "")
              ELSE NoLast
  /\ UNCHANGED << alive, meshExists, meshAttributeFlags_, pbrIbl_, lightSetup_,
                  shader_, shadowMapKeys_, lightSetups, resources, frontFace,
                  gracefulAssert, halted >>

\* PbrDrawable::setLightSetup (lines 324-326)
SetLightSetup(d, key) ==
  /\ ~halted /\ alive[d]
  /\ lightSetup_' = [lightSetup_ EXCEPT ![d] = key]
  /\ last' = NoLast
  /\ UNCHANGED << alive, meshExists, meshAttributeFlags_, pbrIbl_,
                  materialData_, flags_, matCache, shader_, shadowMapKeys_,
                  lightSetups, resources, frontFace, gracefulAssert, halted >>

\* Mutant of SetShadowData: the references and the flag are stored before
\* the flag is checked.
SetShadowDataStoresFirst(d, keys, shadowFlag) ==
  /\ ~halted /\ alive[d]
  /\ shadowMapKeys_' = [shadowMapKeys_ EXCEPT ![d] = <<keys>>]
  /\ flags_' = [flags_ EXCEPT ![d] = @ \cup shadowFlag]
  /\ IF shadowFlag = ShadowsVSM
     THEN /\ last' = Log("setShadowData", d, "")
          /\ UNCHANGED halted
     ELSE /\ last' = Log("setShadowData", d, "shadowFlag")
          /\ halted' = ~gracefulAssert
  /\ UNCHANGED << alive, meshExists, meshAttributeFlags_, pbrIbl_,
                  materialData_, matCache, lightSetup_, shader_, lightSetups,
                  resources, frontFace, gracefulAssert >>

\* PbrDrawable::setShadowData (lines 586-597); keys has one BOOLEAN per
\* key, whether the ShadowMapManager holds a cube map for it.
SetShadowData(d, keys, shadowFlag) ==
  /\ ~halted /\ alive[d]
  /\ IF shadowFlag = ShadowsVSM
     THEN /\ shadowMapKeys_' = [shadowMapKeys_ EXCEPT ![d] = <<keys>>]
          /\ flags_' = [flags_ EXCEPT ![d] = @ \cup shadowFlag]
          /\ last' = Log("setShadowData", d, "")
          /\ UNCHANGED halted
     ELSE /\ last' = Log("setShadowData", d, "shadowFlag")
          /\ halted' = ~gracefulAssert
          /\ UNCHANGED << shadowMapKeys_, flags_ >>
  /\ UNCHANGED << alive, meshExists, meshAttributeFlags_, pbrIbl_,
                  materialData_, matCache, lightSetup_, shader_, lightSetups,
                  resources, frontFace, gracefulAssert >>

\* Mutant of Draw: the mesh is checked after updateShader.
DrawUpdatesShaderFirst(d, normalDet, useDrawableIds) ==
  /\ ~halted /\ alive[d]
  /\ IF ~meshExists[d]
     THEN /\ last' = [Log("draw", d, "mesh") EXCEPT
                        !.normalDet = normalDet,
                        !.useDrawableIds = useDrawableIds,
                        !.frontFaceBefore = frontFace]
          /\ halted' = ~gracefulAssert
          /\ \E us \in {updateShader(resources, shader_[d], flags_[d],
                                     lightCountOf(d))} :
                /\ resources' = us.resources
                /\ shader_' = [shader_ EXCEPT ![d] = us.shader]
          /\ UNCHANGED frontFace
     ELSE \E us \in {updateShader(resources, shader_[d], flags_[d],
                                  lightCountOf(d))} :
          \E sh \in {IF Loaded(us.resources, us.shader)
                     THEN Val(us.resources[us.shader].data)
                     ELSE [id |-> 0, flags_ |-> {}, lightCount_ |-> 0,
                           lightingIsEnabled_ |-> FALSE,
                           isTextured_ |-> FALSE]} :
          \E steps \in {IF us.ok
                        THEN DrawSteps(d, flags_[d], matCache[d],
                                       lightSetups[lightSetup_[d]], pbrIbl_[d],
                                       Has(shadowMapKeys_[d]),
                                       ValueOr(shadowMapKeys_[d], <<>>),
                                       normalDet, useDrawableIds)
                        ELSE << <<"CORRADE_INTERNAL_ASSERT", <<FALSE>> >> >>} :
          \E ran \in {Executed(sh, steps, gracefulAssert)} :
             /\ resources' = us.resources
             /\ shader_' = [shader_ EXCEPT ![d] = us.shader]
             /\ frontFace' = FrontFaceAfter(ran, Len(ran), frontFace)
             /\ halted' = Aborts(sh, ran, gracefulAssert)
             /\ last' = [ op |-> "draw", d |-> d,
                          violation |-> ViolationOf(sh, ran),
                          lookedUp |-> us.lookedUp, hit |-> us.hit,
                          built |-> us.built, shaderId |-> sh.id,
                          normalDet |-> normalDet,
                          useDrawableIds |-> useDrawableIds,
                          frontFaceBefore |-> frontFace,
                          drawFrontFace |-> DrawFrontFace(ran, frontFace),
                          calls |-> ran,
                          constructed |->
                            IF us.built
                            THEN Construction(flags_[d], lightCountOf(d))
                            ELSE NoConstruction ]
  /\ UNCHANGED << alive, meshExists, meshAttributeFlags_, pbrIbl_,
                  materialData_, flags_, matCache, lightSetup_, shadowMapKeys_,
                  lightSetups, gracefulAssert >>

\* PbrDrawable::draw (lines 328-514)
Draw(d, normalDet, useDrawableIds) ==
  /\ ~halted /\ alive[d]
  /\ IF ~meshExists[d]
     THEN /\ last' = [Log("draw", d, "mesh") EXCEPT
                        !.normalDet = normalDet,
                        !.useDrawableIds = useDrawableIds,
                        !.frontFaceBefore = frontFace]
          /\ halted' = ~gracefulAssert
          /\ UNCHANGED << shader_, resources, frontFace >>
     ELSE \E us \in {updateShader(resources, shader_[d], flags_[d],
                                  lightCountOf(d))} :
          \E sh \in {IF Loaded(us.resources, us.shader)
                     THEN Val(us.resources[us.shader].data)
                     ELSE [id |-> 0, flags_ |-> {}, lightCount_ |-> 0,
                           lightingIsEnabled_ |-> FALSE,
                           isTextured_ |-> FALSE]} :
          \E steps \in {IF us.ok
                        THEN DrawSteps(d, flags_[d], matCache[d],
                                       lightSetups[lightSetup_[d]], pbrIbl_[d],
                                       Has(shadowMapKeys_[d]),
                                       ValueOr(shadowMapKeys_[d], <<>>),
                                       normalDet, useDrawableIds)
                        ELSE << <<"CORRADE_INTERNAL_ASSERT", <<FALSE>> >> >>} :
          \E ran \in {Executed(sh, steps, gracefulAssert)} :
             /\ resources' = us.resources
             /\ shader_' = [shader_ EXCEPT ![d] = us.shader]
             /\ frontFace' = FrontFaceAfter(ran, Len(ran), frontFace)
             /\ halted' = Aborts(sh, ran, gracefulAssert)
             /\ last' = [ op |-> "draw", d |-> d,
                          violation |-> ViolationOf(sh, ran),
                          lookedUp |-> us.lookedUp, hit |-> us.hit,
                          built |-> us.built, shaderId |-> sh.id,
                          normalDet |-> normalDet,
                          useDrawableIds |-> useDrawableIds,
                          frontFaceBefore |-> frontFace,
                          drawFrontFace |-> DrawFrontFace(ran, frontFace),
                          calls |-> ran,
                          constructed |->
                            IF us.built
                            THEN Construction(flags_[d], lightCountOf(d))
                            ELSE NoConstruction ]
  /\ UNCHANGED << alive, meshExists, meshAttributeFlags_, pbrIbl_,
                  materialData_, flags_, matCache, lightSetup_, shadowMapKeys_,
                  lightSetups, gracefulAssert >>

\* The owner of a LightSetup changes it: a light is added or removed.
AddLight(key, light, max) ==
  /\ ~halted /\ Len(lightSetups[key]) < max
  /\ lightSetups' = [lightSetups EXCEPT ![key] = Append(@, light)]
  /\ last' = NoLast
  /\ UNCHANGED << alive, meshExists, meshAttributeFlags_, pbrIbl_,
                  materialData_, flags_, matCache, lightSetup_, shader_,
                  shadowMapKeys_, resources, frontFace, gracefulAssert,
                  halted >>

RemoveLight(key) ==
  /\ ~halted /\ Len(lightSetups[key]) > 0
  /\ lightSetups' = [lightSetups EXCEPT
                       ![key] = SubSeq(@, 1, Len(@) - 1)]
  /\ last' = NoLast
  /\ UNCHANGED << alive, meshExists, meshAttributeFlags_, pbrIbl_,
                  materialData_, flags_, matCache, lightSetup_, shader_,
                  shadowMapKeys_, resources, frontFace, gracefulAssert,
                  halted >>

\* The inputs of the operations.
DetValues == {-1, 0, 1}
ShadowFlagValues == {ShadowsVSM, DebugDisplay}
\* n keys, of which the manager holds the first k.
Keys(n, k) == [i \in 1..n |-> i <= k]
ShadowKeys ==
  {Keys(3, 3), Keys(3, 2), Keys(MaxShadowKeys, MaxShadowKeys)}

(***************************************************************************)
(* Spec: one drawable with a mesh, through every operation.                *)
(***************************************************************************)
Next ==
  \/ \E m \in SysMaterials, ibl \in BOOLEAN, key \in LightSetupKeys :
        Construct(1, m, TRUE, TRUE, ibl, key)
  \/ Destroy(1)
  \/ \E m \in SysMaterials : SetMaterialValues(1, m)
  \/ \E key \in LightSetupKeys : SetLightSetup(1, key)
  \/ \E keys \in ShadowKeys, f \in ShadowFlagValues :
        SetShadowData(1, keys, f)
  \/ \E det \in DetValues, ids \in BOOLEAN : Draw(1, det, ids)
  \/ \E key \in MutableLightSetupKeys :
        AddLight(key, DirectionalLight, MaxLights)
  \/ \E key \in MutableLightSetupKeys : RemoveLight(key)

Spec == Init /\ [][Next]_vars

(***************************************************************************)
(* SpecShare: two drawables that draw through one ShaderManager, in the    *)
(* default build (a failed assertion aborts); a material reassignment      *)
(* gives a drawable another material than it has.                          *)
(***************************************************************************)
InitDefault == Init /\ ~gracefulAssert

NextShare ==
  \/ \E d \in Drawables, m \in SysMaterials, key \in LightSetupKeys :
        Construct(d, m, TRUE, TRUE, FALSE, key)
  \/ \E d \in Drawables : Destroy(d)
  \/ \E d \in Drawables : \E m \in SysMaterials \ {materialData_[d]} :
        SetMaterialValues(d, m)
  \/ \E d \in Drawables, key \in LightSetupKeys : SetLightSetup(d, key)
  \/ \E d \in Drawables : Draw(d, 1, FALSE)
  \/ \E key \in MutableLightSetupKeys :
        AddLight(key, DirectionalLight, MaxSharedLights)
  \/ \E key \in MutableLightSetupKeys : RemoveLight(key)

SpecShare == InitDefault /\ [][NextShare]_vars

(***************************************************************************)
(* SpecMat: one drawable given materials that vary one part at a time      *)
(* (the base attributes, or one layer), then reassigned.                   *)
(***************************************************************************)
Absent(v) == {<<>>, <<v>>}

BaseMaterials ==
  { [EmptyMaterial EXCEPT !.baseColorTexture = t1,
                          !.noneRoughnessMetallicTexture = t2,
                          !.normalTexture = t3, !.emissiveTexture = t4,
                          !.textureMatrix = tm, !.hasPerVertexObjectId = pv,
                          !.doubleSided = ds] :
      t1 \in Absent(1), t2 \in Absent(2), t3 \in Absent(3), t4 \in Absent(4),
      tm \in {<<>>, <<0>>, <<1>>}, pv \in BOOLEAN, ds \in BOOLEAN }

ClearCoats ==
  [ layerFactor : {<<>>, <<0>>, <<30>>, <<-10>>}, roughness : Absent(50),
    layerFactorTexture : Absent(5), roughnessTexture : Absent(6),
    normalTexture : Absent(7), normalTextureScale : Absent(200) ]

Speculars ==
  [ specularFactor : {<<>>, <<-20>>, <<50>>, <<150>>},
    specularTexture : Absent(8),
    specularColorFactor : Absent(40), specularColorTexture : Absent(9) ]

Anisotropies ==
  [ anisotropyStrength : {<<>>, <<0>>, <<50>>, <<-200>>},
    anisotropy : {<<>>, <<0>>, <<70>>},
    anisotropyRotation : {<<>>, <<0>>, <<1>>},
    anisotropyDirection : {<<>>, <<0>>, <<2>>},
    anisotropyTexture : Absent(10) ]

Transmissions ==
  [ transmissionFactor : Absent(25), transmissionTexture : Absent(11) ]

Volumes ==
  [ thicknessFactor : Absent(60), thicknessTexture : Absent(12),
    attenuationDistance : {<<>>, <<0>>, <<500>>}, attenuationColor : Absent(80) ]

Iors == { [ior |-> i] : i \in Absent(133) }

LayerMaterials ==
  {[EmptyMaterial EXCEPT !.clearCoat = <<l>>] : l \in ClearCoats}
  \cup {[EmptyMaterial EXCEPT !.specular = <<l>>] : l \in Speculars}
  \cup {[EmptyMaterial EXCEPT !.anisotropy = <<l>>] : l \in Anisotropies}
  \cup {[EmptyMaterial EXCEPT !.transmission = <<l>>] : l \in Transmissions}
  \cup {[EmptyMaterial EXCEPT !.volume = <<l>>] : l \in Volumes}
  \cup {[EmptyMaterial EXCEPT !.ior = <<l>>] : l \in Iors}

\* A clearcoat layer with every texture and factor 0, and an anisotropy
\* layer with a texture and nothing else.
MatClearCoatOff ==
  [EmptyMaterial EXCEPT
     !.clearCoat = << [EmptyClearCoat EXCEPT !.layerFactor = <<0>>,
                                             !.layerFactorTexture = <<5>>,
                                             !.roughnessTexture = <<6>>,
                                             !.normalTexture = <<7>>] >>]
MatAnisotropyTexture ==
  [EmptyMaterial EXCEPT
     !.anisotropy = << [EmptyAnisotropy EXCEPT !.anisotropyTexture = <<10>>] >>]

FirstMaterials == BaseMaterials \cup LayerMaterials \cup SysMaterials
NextMaterials ==
  {EmptyMaterial, MatClearCoatOff, MatAnisotropyTexture, MatLayered}

NextMat ==
  \/ \E m \in FirstMaterials, hasTangent \in BOOLEAN, ibl \in BOOLEAN :
        Construct(1, m, TRUE, hasTangent, ibl, "no_lights")
  \/ \E m \in NextMaterials : SetMaterialValues(1, m)
  \/ Destroy(1)

SpecMat == InitDefault /\ [][NextMat]_vars

(***************************************************************************)
(* SpecVariant: one drawable, with a mesh, given a material for every       *)
(* combination of textures of the base material and of each layer, with    *)
(* and without image based lighting, shadow maps and a light, in the       *)
(* default build: the variants draw has constructed.                       *)
(***************************************************************************)
VariantMaterials ==
  {m \in BaseMaterials : /\ ~m.hasPerVertexObjectId /\ ~m.doubleSided
                         /\ m.textureMatrix # <<0>>}
  \cup {[EmptyMaterial EXCEPT !.clearCoat = <<l>>] :
          l \in {c \in ClearCoats : /\ c.layerFactor = <<30>>
                                    /\ c.roughness = <<>>
                                    /\ c.normalTextureScale = <<>>}}
  \cup {[EmptyMaterial EXCEPT !.specular = <<l>>] :
          l \in {c \in Speculars : /\ c.specularFactor = <<50>>
                                   /\ c.specularColorFactor = <<>>}}
  \cup {[EmptyMaterial EXCEPT !.anisotropy = <<l>>] :
          l \in {c \in Anisotropies : /\ c.anisotropyStrength \in {<<>>, <<50>>}
                                      /\ c.anisotropy = <<>>
                                      /\ c.anisotropyRotation \in {<<>>, <<1>>}
                                      /\ c.anisotropyDirection = <<>>}}
  \cup {[EmptyMaterial EXCEPT !.transmission = <<l>>] : l \in Transmissions}
  \cup {[EmptyMaterial EXCEPT !.volume = <<l>>] :
          l \in {c \in Volumes : /\ c.thicknessFactor = <<>>
                                 /\ c.attenuationDistance = <<>>
                                 /\ c.attenuationColor = <<>>}}
  \cup SysMaterials

NextVariant ==
  \/ \E m \in VariantMaterials, hasTangent \in BOOLEAN, ibl \in BOOLEAN :
        Construct(1, m, TRUE, hasTangent, ibl, "default")
  \/ Destroy(1)
  \/ \E k \in {1, 2} : SetShadowData(1, Keys(2, k), ShadowsVSM)
  \/ Draw(1, 1, FALSE)
  \/ AddLight("default", PointLight, MaxLights)
  \/ RemoveLight("default")

SpecVariant == InitDefault /\ [][NextVariant]_vars

(***************************************************************************)
(* SpecMesh: one drawable whose mesh may not exist, in both builds.        *)
(***************************************************************************)
NextMesh ==
  \/ \E m \in SysMaterials, hasMesh \in BOOLEAN, ibl \in BOOLEAN,
        key \in LightSetupKeys :
        Construct(1, m, hasMesh, TRUE, ibl, key)
  \/ Destroy(1)
  \/ \E det \in DetValues : Draw(1, det, FALSE)
  \/ AddLight("default", DirectionalLight, MaxLights)
  \/ RemoveLight("default")

SpecMesh == Init /\ [][NextMesh]_vars

(***************************************************************************)
(* SpecSharedLight: two drawables with the same material and LightSetups   *)
(* of directional and point lights that change between their draws.        *)
(***************************************************************************)
NextSharedLight ==
  \/ \E d \in Drawables, key \in LightSetupKeys :
        Construct(d, MatBaseColorTexture, TRUE, TRUE, FALSE, key)
  \/ \E d \in Drawables : Destroy(d)
  \/ \E d \in Drawables, key \in LightSetupKeys : SetLightSetup(d, key)
  \/ \E d \in Drawables : Draw(d, 1, FALSE)
  \/ \E light \in LightKinds : AddLight("default", light, MaxSharedLights)
  \/ RemoveLight("default")

SpecSharedLight == InitDefault /\ [][NextSharedLight]_vars

(***************************************************************************)
(* SpecLight: one drawable whose LightSetup holds directional and point    *)
(* lights, in the default build.                                           *)
(***************************************************************************)
NextLight ==
  \/ \E m \in SysMaterials, key \in LightSetupKeys :
        Construct(1, m, TRUE, TRUE, FALSE, key)
  \/ Destroy(1)
  \/ \E key \in LightSetupKeys : SetLightSetup(1, key)
  \/ \E ids \in BOOLEAN : Draw(1, 1, ids)
  \/ \E key \in MutableLightSetupKeys, light \in LightKinds :
        AddLight(key, light, MaxSharedLights)
  \/ \E key \in MutableLightSetupKeys : RemoveLight(key)

SpecLight == InitDefault /\ [][NextLight]_vars

(***************************************************************************)
(* The properties.                                                         *)
(***************************************************************************)
\* The shader instance drawable d holds.
Holds(d) == alive[d] /\ Loaded(resources, shader_[d])
Inst(d) == Val(resources[shader_[d]].data)

\* The last draw reached the flip of the winding (line 372).
Flipped == \E i \in 1..Len(last.calls) :
              last.calls[i] = <<"setFrontFace", <<"ClockWise">> >>

Opposite(w) == IF w = "ClockWise" THEN "CounterClockWise" ELSE "ClockWise"

\* C1: when a draw with a negative determinant returns, on any exit path
\* reached after the flip, the winding is what it was before the draw.
C1_WindingRestoredOnEveryExit ==
  (last.op = "draw" /\ last.normalDet < 0 /\ Flipped /\ ~halted)
     => frontFace = last.frontFaceBefore

\* C2: for either winding W in force before a draw, a draw with a negative
\* determinant draws the mesh with the opposite of W and, completed, leaves
\* the winding at W; a draw with a non-negative determinant leaves the
\* winding alone.
C2_FlipsRelativeToWindingBefore ==
  (last.op = "draw" /\ ~halted) =>
     IF last.normalDet < 0
     THEN last.drawFrontFace # "" =>
            /\ last.drawFrontFace = Opposite(last.frontFaceBefore)
            /\ frontFace = last.frontFaceBefore
     ELSE /\ frontFace = last.frontFaceBefore
          /\ last.drawFrontFace \in {"", last.frontFaceBefore}

\* C3: two drawables hold the same PbrShader instance exactly when the
\* flags and the light count they hold it for are equal; the instance a draw
\* ends with is another drawable's instance exactly when that instance has
\* the drawing drawable's flags and light count.
C3_SameKeySameInstance ==
  /\ \A d1, d2 \in Drawables :
        (Holds(d1) /\ Holds(d2)) =>
           ((/\ Inst(d1).flags_ = Inst(d2).flags_
             /\ Inst(d1).lightCount_ = Inst(d2).lightCount_)
            <=> Inst(d1).id = Inst(d2).id)
  /\ \A d, e \in Drawables :
        (last.op = "draw" /\ last.d = d /\ e # d /\ Holds(e)) =>
           ((/\ Inst(e).flags_ = flags_[d]
             /\ Inst(e).lightCount_ = lightCountOf(d))
            <=> Inst(e).id = last.shaderId)

C3_Witness ==
  /\ Holds(1) /\ Holds(2)
  /\ Inst(1).flags_ = Inst(2).flags_
  /\ Inst(1).lightCount_ = 2 /\ Inst(2).lightCount_ = 3
  /\ Inst(1).id # Inst(2).id

\* C4: a draw constructs a PbrShader only when no drawable holds one for
\* its flags and light count; while one is held, a request for it constructs
\* nothing and the manager gains no entry; a construction adds exactly one.
C4_Step ==
  \A d \in Drawables :
     (last'.op = "draw" /\ last'.d = d /\ alive[d]) =>
        LET held == \E e \in Drawables :
                       /\ Holds(e)
                       /\ Inst(e).flags_ = flags_[d]
                       /\ Inst(e).lightCount_ = lightCountOf(d) IN
        /\ last'.built => ~held
        /\ held => ~last'.built
        /\ IF last'.built
           THEN Cardinality(DOMAIN resources' \ DOMAIN resources) = 1
           ELSE DOMAIN resources' \subseteq DOMAIN resources

\* C4, over every step: updateShader constructs a PbrShader only on a miss.
C4_BuildsOnlyOnMiss == [][C4_Step]_vars

C4_Witness ==
  /\ last.op = "draw" /\ last.lookedUp /\ last.hit /\ ~last.built
  /\ resources[shader_[last.d]].referenceCount = 2

\* C5: the manager holds a shader exactly when a living drawable refers to
\* it, and counts as many references as there are such drawables.
Referencing(key) == {d \in Drawables : alive[d] /\ shader_[d] = key}

C5_CachedIffReferenced ==
  /\ \A key \in DOMAIN resources :
        /\ Has(resources[key].data)
        /\ Referencing(key) # {}
        /\ resources[key].referenceCount = Cardinality(Referencing(key))
  /\ \A d \in Drawables :
        IF alive[d] THEN shader_[d] # NoKey => shader_[d] \in DOMAIN resources
        ELSE shader_[d] = NoKey

C5_Witness ==
  /\ last.op = "destroy"
  /\ \E e \in Drawables : Holds(e) /\ e # last.d
  /\ Cardinality(DOMAIN resources) = 1

\* C6: a draw ends updateShader with a shader of the drawable's flags and of
\* the size of its LightSetup; it keeps the shader it held, asking the
\* manager nothing, when that shader already had both, and otherwise fetches
\* one before any upload, so that no upload is refused.
InSync(d) ==
  /\ Holds(d)
  /\ Inst(d).flags_ = flags_[d]
  /\ Inst(d).lightCount_ = lightCountOf(d)

C6_Step ==
  \A d \in Drawables :
     (last'.op = "draw" /\ last'.d = d /\ last'.violation # "mesh") =>
        /\ Loaded(resources', shader_'[d])
        /\ Val(resources'[shader_'[d]].data).flags_ = flags_[d]
        /\ Val(resources'[shader_'[d]].data).lightCount_ = lightCountOf(d)
        /\ Val(resources'[shader_'[d]].data).id = last'.shaderId
        /\ IF InSync(d)
           THEN /\ ~last'.lookedUp
                /\ shader_' = shader_ /\ resources' = resources
           ELSE last'.lookedUp
        /\ last'.violation # "shader"

\* C6, over every step: a draw leaves updateShader in sync with the drawable.
C6_ShaderInSyncOnDraw == [][C6_Step]_vars

C6_Witness ==
  /\ last.op = "draw" /\ last.lookedUp /\ last.violation = ""
  /\ lightCountOf(last.d) = MaxLights
  /\ HasAny(flags_[last.d], ShadowsVSM)

\* C7: a layer-texture flag is set only with the flag of its layer.
LayerTextureBits ==
  { <<"ClearCoatTexture", "ClearCoatLayer">>,
    <<"ClearCoatRoughnessTexture", "ClearCoatLayer">>,
    <<"ClearCoatNormalTexture", "ClearCoatLayer">>,
    <<"SpecularLayerTexture", "SpecularLayer">>,
    <<"SpecularLayerColorTexture", "SpecularLayer">>,
    <<"AnisotropyLayerTexture", "AnisotropyLayer">>,
    <<"TransmissionLayerTexture", "TransmissionLayer">>,
    <<"VolumeLayerThicknessTexture", "VolumeLayer">> }

C7_TextureFlagOnlyWithLayerFlag ==
  \A d \in Drawables : \A p \in LayerTextureBits :
     (alive[d] /\ p[1] \in flags_[d]) => p[2] \in flags_[d]

C7_Witness ==
  /\ alive[1]
  /\ Has(materialData_[1].clearCoat)
  /\ Has(Val(materialData_[1].clearCoat).layerFactorTexture)
  /\ Has(Val(materialData_[1].clearCoat).roughnessTexture)
  /\ Has(Val(materialData_[1].clearCoat).normalTexture)
  /\ {"ClearCoatTexture", "ClearCoatRoughnessTexture",
      "ClearCoatNormalTexture", "ClearCoatLayer"} \subseteq flags_[1]

\* C8: the only change to a drawable's non-material flags is setShadowData
\* adding the shadow flag: a drawable constructed with an IBL resource has
\* the IBL flag in every later state, and one whose setShadowData succeeded
\* has the shadow flag in every later state.
C8_NonMaterialFlagsKept ==
  \A d \in Drawables :
     alive[d] =>
        /\ pbrIbl_[d] <=> "ImageBasedLighting" \in flags_[d]
        /\ Has(shadowMapKeys_[d]) <=> "ShadowsVSM" \in flags_[d]
        /\ "DebugDisplay" \notin flags_[d]

\* C9: the clearcoat layer flag is set exactly when the material has a
\* clearcoat layer whose layer factor is above 0; at factor 0 no clearcoat
\* flag is set, whatever else the layer has; above 0 the cached factor is
\* the material's.
ClearCoatBits ==
  {"ClearCoatLayer", "ClearCoatTexture", "ClearCoatRoughnessTexture",
   "ClearCoatNormalTexture"}

\* The layer factor of a clearcoat layer, 1.0 when the attribute is absent.
C9_Factor(cc) == IF cc.layerFactor = <<>> THEN 100 ELSE cc.layerFactor[1]

C9_ClearCoatGatedByFactor ==
  \A d \in Drawables :
     alive[d] =>
        LET present == materialData_[d].clearCoat # <<>>
            cc == materialData_[d].clearCoat[1] IN
        /\ "ClearCoatLayer" \in flags_[d] <=> (present /\ C9_Factor(cc) > 0)
        /\ (present /\ C9_Factor(cc) <= 0) => flags_[d] \cap ClearCoatBits = {}
        /\ (present /\ C9_Factor(cc) > 0)
              => matCache[d].clearCoat.factor = C9_Factor(cc)

C9_Witness ==
  /\ alive[1]
  /\ materialData_[1].clearCoat # <<>>
  /\ materialData_[1].clearCoat[1].layerFactor = <<0>>
  /\ materialData_[1].clearCoat[1].layerFactorTexture # <<>>
  /\ materialData_[1].clearCoat[1].normalTexture # <<>>
  /\ flags_[1] \cap ClearCoatBits = {}

\* C10: the anisotropy layer flag is set exactly when the material has an
\* anisotropy layer with a non-zero resolved strength, a non-zero resolved
\* rotation or an anisotropy texture; a texture alone sets it.
\* A resolved value: that of the first name that is present, else 0.
C10_Resolved(first, second) ==
  IF first # <<>> THEN first[1] ELSE IF second # <<>> THEN second[1] ELSE 0

C10_AnisotropyActivation ==
  \A d \in Drawables :
     alive[d] =>
        LET present == materialData_[d].anisotropy # <<>>
            an == materialData_[d].anisotropy[1] IN
        "AnisotropyLayer" \in flags_[d]
           <=> /\ present
               /\ \/ C10_Resolved(an.anisotropyStrength, an.anisotropy) # 0
                  \/ C10_Resolved(an.anisotropyRotation,
                                  an.anisotropyDirection) # 0
                  \/ an.anisotropyTexture # <<>>

C10_Witness ==
  /\ alive[1]
  /\ materialData_[1].anisotropy # <<>>
  /\ materialData_[1].anisotropy[1].anisotropyStrength = <<0>>
  /\ materialData_[1].anisotropy[1].anisotropyRotation = <<0>>
  /\ materialData_[1].anisotropy[1].anisotropyTexture # <<>>
  /\ "AnisotropyLayer" \in flags_[1]

\* C11: of the two names of the anisotropy strength, and of the two of its
\* rotation, the first that is present decides and the alias is read only
\* when the first is absent: an alias alone acts as the first name with its
\* value would (layer flag set, factor its clamped value, direction its
\* rotation), and with the first name present, even as 0, the alias changes
\* nothing.
C11_Clamped(v) == IF v > 100 THEN 100 ELSE IF v < -100 THEN -100 ELSE v

C11_FirstNamePresentWins ==
  \A d \in Drawables :
     (alive[d] /\ materialData_[d].anisotropy # <<>>) =>
        LET an == materialData_[d].anisotropy[1]
            ca == matCache[d].anisotropyLayer
            noRotation == /\ an.anisotropyRotation \in {<<>>, <<0>>}
                          /\ an.anisotropyDirection \in {<<>>, <<0>>}
            noStrength == /\ an.anisotropyStrength \in {<<>>, <<0>>}
                          /\ an.anisotropy \in {<<>>, <<0>>} IN
        /\ (an.anisotropyStrength = <<>> /\ an.anisotropy \notin {<<>>, <<0>>})
              => /\ "AnisotropyLayer" \in flags_[d]
                 /\ ca.factor = C11_Clamped(an.anisotropy[1])
        /\ an.anisotropyStrength \notin {<<>>, <<0>>}
              => /\ "AnisotropyLayer" \in flags_[d]
                 /\ ca.factor = C11_Clamped(an.anisotropyStrength[1])
        /\ (an.anisotropyStrength = <<0>> /\ noRotation
            /\ an.anisotropyTexture = <<>>)
              => "AnisotropyLayer" \notin flags_[d]
        /\ (an.anisotropyRotation = <<>>
            /\ an.anisotropyDirection \notin {<<>>, <<0>>})
              => /\ "AnisotropyLayer" \in flags_[d]
                 /\ ca.direction = rotation(an.anisotropyDirection[1])
        /\ an.anisotropyRotation \notin {<<>>, <<0>>}
              => /\ "AnisotropyLayer" \in flags_[d]
                 /\ ca.direction = rotation(an.anisotropyRotation[1])
        /\ (an.anisotropyRotation = <<0>> /\ noStrength
            /\ an.anisotropyTexture = <<>>)
              => "AnisotropyLayer" \notin flags_[d]

C11_Witness ==
  /\ alive[1]
  /\ materialData_[1].anisotropy # <<>>
  /\ materialData_[1].anisotropy[1].anisotropyStrength = <<0>>
  /\ materialData_[1].anisotropy[1].anisotropy = <<70>>
  /\ materialData_[1].anisotropy[1].anisotropyRotation = <<>>
  /\ materialData_[1].anisotropy[1].anisotropyDirection = <<>>
  /\ materialData_[1].anisotropy[1].anisotropyTexture = <<>>
  /\ "AnisotropyLayer" \notin flags_[1]

\* C12: the specular layer flag is set exactly when the material has the
\* specular layer, whatever its attributes; a specular factor it gives is
\* cached clamped to [0, 1].
C12_SpecularPresenceAndClamp ==
  \A d \in Drawables :
     alive[d] =>
        LET present == materialData_[d].specular # <<>>
            sp == materialData_[d].specular[1] IN
        /\ "SpecularLayer" \in flags_[d] <=> present
        /\ (present /\ sp.specularFactor # <<>>) =>
              matCache[d].specularLayer.factor =
                 (IF sp.specularFactor[1] > 100 THEN 100
                  ELSE IF sp.specularFactor[1] < 0 THEN 0
                  ELSE sp.specularFactor[1])

C12_Witness ==
  /\ alive[1]
  /\ materialData_[1].specular # <<>>
  /\ materialData_[1].specular[1].specularFactor = <<-20>>
  /\ "SpecularLayer" \in flags_[1]
  /\ matCache[1].specularLayer.factor = 0

\* C13: the transmission flag and the volume flag are set exactly when the
\* material has the layer, whatever its factors, and the cached attenuation
\* distance is the material's when that is above 0 and the default
\* otherwise.
C13_LayersUngatedDistanceDefault ==
  \A d \in Drawables :
     alive[d] =>
        LET m == materialData_[d]
            given == IF m.volume # <<>> THEN m.volume[1].attenuationDistance
                     ELSE <<>> IN
        /\ "TransmissionLayer" \in flags_[d] <=> m.transmission # <<>>
        /\ "VolumeLayer" \in flags_[d] <=> m.volume # <<>>
        /\ matCache[d].volumeLayer.attenuationDist =
              (IF given # <<>> /\ given[1] > 0 THEN given[1]
               ELSE DefaultMatCache.volumeLayer.attenuationDist)

\* What one extraction does to the same fields: the two flags follow the
\* presence of the layers, and the cached attenuation distance is
\* overwritten by a distance above 0 and otherwise left as it was.
ExtractionGatesDistance_Step ==
  \A d \in Drawables :
     (alive'[d] /\ (~alive[d] \/ materialData_'[d] # materialData_[d]
                    \/ last'.op = "sameMaterial")) =>
        LET m == materialData_'[d]
            given == IF m.volume # <<>> THEN m.volume[1].attenuationDistance
                     ELSE <<>> IN
        /\ "TransmissionLayer" \in flags_'[d] <=> m.transmission # <<>>
        /\ "VolumeLayer" \in flags_'[d] <=> m.volume # <<>>
        /\ matCache'[d].volumeLayer.attenuationDist =
              (IF given # <<>> /\ given[1] > 0 THEN given[1]
               ELSE matCache[d].volumeLayer.attenuationDist)

ExtractionGatesDistance == [][ExtractionGatesDistance_Step]_vars

\* C14: each base texture flag is set exactly when the material has the
\* texture; PrecomputedTangent exactly when it has a normal texture and the
\* mesh has tangents; TextureTransformation exactly when its texture matrix
\* is not the identity; a material with a base colour texture and nothing
\* else gives the flags ObjectId and BaseColorTexture.
C14_BaseFlags ==
  \A d \in Drawables :
     alive[d] =>
        LET m == materialData_[d] IN
        /\ "BaseColorTexture" \in flags_[d] <=> m.baseColorTexture # <<>>
        /\ "NoneRoughnessMetallicTexture" \in flags_[d]
              <=> m.noneRoughnessMetallicTexture # <<>>
        /\ "NormalTexture" \in flags_[d] <=> m.normalTexture # <<>>
        /\ "EmissiveTexture" \in flags_[d] <=> m.emissiveTexture # <<>>
        /\ "PrecomputedTangent" \in flags_[d]
              <=> (m.normalTexture # <<>> /\ meshAttributeFlags_[d])
        /\ "TextureTransformation" \in flags_[d]
              <=> m.textureMatrix \notin {<<>>, <<0>>}
        /\ m = MatBaseColorTexture
              => flags_[d] \ {"ImageBasedLighting"}
                    = {"ObjectId", "BaseColorTexture"}

C14_Witness ==
  /\ alive[1] /\ meshAttributeFlags_[1]
  /\ materialData_[1] = MatBaseColorTexture
  /\ flags_[1] = {"ObjectId", "BaseColorTexture"}

\* C15: setMaterialValuesInternal run again with the material the drawable
\* has leaves every field of matCache and every material flag as it was.
NonMaterialBits == {"ImageBasedLighting", "ShadowsVSM", "DebugDisplay"}

C15_Step ==
  \A d \in Drawables :
     (alive[d] /\ last'.op = "sameMaterial" /\ last'.d = d) =>
        /\ matCache'[d] = matCache[d]
        /\ flags_'[d] \ NonMaterialBits = flags_[d] \ NonMaterialBits

\* C15, over every step.
C15_ReExtractionIdempotent == [][C15_Step]_vars

C15_Witness ==
  /\ last.op = "sameMaterial"
  /\ materialData_[last.d] = MatLayered
  /\ matCache[last.d].clearCoat.factor = 30

\* C16: after a material is assigned, every field of matCache is what a
\* drawable constructed with that material has.
C16_ReExtractionWholesale ==
  \A d \in Drawables :
     alive[d] => matCache[d] = MaterialCache(DefaultMatCache, materialData_[d])

\* The arguments of the calls of method f among the calls of the last draw.
CallsOf(f) ==
  {last.calls[i][2] : i \in {k \in 1..Len(last.calls) : last.calls[k][1] = f}}

\* C17: a draw uploads one vector for each light of the LightSetup, in its
\* order: the light's vector relative to the world times (2 * tag - 1) for
\* its fourth component tag, so that a light at a position (tag 1) is
\* uploaded as it is, (1,2,3,1) as (1,2,3,1), and a directional light
\* (tag 0) negated, (0,0,-1,0) as (0,0,1,0).
C17_Expected(w) ==
  IF w[4] = 1 THEN w ELSE << 0 - w[1], 0 - w[2], 0 - w[3], 0 >>

C17_LightVectorsFlipped ==
  last.op = "draw" =>
     \A v \in CallsOf("setLightVectors") :
        LET lights == lightSetups[lightSetup_[last.d]] IN
        /\ Len(v) = Len(lights)
        /\ \A k \in 1..Len(lights) :
              /\ v[k] = C17_Expected(lights[k].vector)
              /\ lights[k].vector = <<1, 2, 3, 1>> => v[k] = <<1, 2, 3, 1>>
              /\ lights[k].vector = <<0, 0, -1, 0>> => v[k] = <<0, 0, 1, 0>>

C17_Witness ==
  /\ last.op = "draw"
  /\ lightSetups[lightSetup_[last.d]] = <<DirectionalLight, PointLight>>
  /\ CallsOf("setLightVectors") = { << <<0, 0, 1, 0>>, <<1, 2, 3, 1>> >> }

\* C18: the object id a draw uploads is the drawable's id when the camera
\* uses drawable ids; otherwise 0 when the flags of the drawable include
\* InstancedObjectId, and the semantic id of the scene node when they do
\* not.
C18_ObjectIdUploaded ==
  last.op = "draw" =>
     \A a \in CallsOf("setObjectId") :
        a[1] = (IF last.useDrawableIds THEN drawableId(last.d)
                ELSE IF "InstancedObjectId" \in flags_[last.d] THEN 0
                ELSE semanticId(last.d))

C18_Witness ==
  /\ last.op = "draw" /\ ~last.useDrawableIds
  /\ "InstancedObjectId" \notin flags_[last.d]
  /\ CallsOf("setObjectId") = { <<semanticId(last.d)>> }

\* C19: setShadowData with a flag other than ShadowsVSM violates its
\* precondition and leaves the flags and the shadow references of the
\* drawable as they were; with ShadowsVSM it stores the references and adds
\* the flag ShadowsVSM, and no other, to the flags.
C19_Step ==
  \A d \in Drawables, keys \in ShadowKeys, f \in ShadowFlagValues :
     SetShadowData(d, keys, f) =>
        IF f = ShadowsVSM
        THEN /\ shadowMapKeys_' = [shadowMapKeys_ EXCEPT ![d] = <<keys>>]
             /\ flags_' = [flags_ EXCEPT ![d] = @ \cup {"ShadowsVSM"}]
             /\ last'.violation = ""
        ELSE /\ last'.violation = "shadowFlag"
             /\ flags_' = flags_
             /\ shadowMapKeys_' = shadowMapKeys_

\* C19, over every step.
C19_ShadowFlagChecked == [][C19_Step]_vars

C19_Witness ==
  /\ last.op = "setShadowData" /\ last.violation = "shadowFlag"
  /\ ~halted
  /\ shadowMapKeys_[last.d] = <<>>
  /\ "DebugDisplay" \notin flags_[last.d]

\* C20: attaching 4 shadow keys to a drawable is a fatal precondition
\* violation, so that no running process has a drawable with more than 3
\* keys attached; a draw binds one shadow map for each key, at the indices
\* 0 .. n-1 with n at most 3.
ShadowMapsBound == {a[1] : a \in CallsOf("bindPointShadowMap")}

C20_FourKeysRefused ==
  /\ \A d \in Drawables :
        (alive[d] /\ shadowMapKeys_[d] # <<>> /\ ~halted)
           => Len(shadowMapKeys_[d][1]) <= 3
  /\ last.op = "draw" => \A i \in ShadowMapsBound : i >= 0 /\ i < 3

\* What draw does with the keys of C20: with more than 3 it stops at its
\* assertion before binding any; otherwise, when every step before has
\* run, it binds the indices 0 .. n-1.
DrawBindsShadowMapsBelowThree ==
  (last.op = "draw" /\ shader_[last.d] # NoKey) =>
     LET n == Len(ValueOr(shadowMapKeys_[last.d], <<>>)) IN
     /\ \A i \in ShadowMapsBound : i >= 0 /\ i < 3 /\ i < n
     /\ (last.violation = "" /\ "ShadowsVSM" \in flags_[last.d])
           => ShadowMapsBound = 0..(n - 1)
     /\ n > 3 => ShadowMapsBound = {}

\* The last operation was a draw that got a shader.
Drew == last.op = "draw" /\ Holds(last.d)

\* C21: a draw calls an operation of the shader that is guarded by a
\* feature flag (the bind of a texture, setNormalTextureScale,
\* setTextureMatrix, setPrefilteredMapMipLevels, bindPointShadowMap) only
\* when the flags of the variant it has bound contain the flag of that
\* operation, so that the shader refuses no call of a draw.
C21_Guard ==
  [ bindBaseColorTexture |-> {"BaseColorTexture"},
    bindMetallicRoughnessTexture |-> {"NoneRoughnessMetallicTexture"},
    bindNormalTexture |-> {"NormalTexture"},
    setNormalTextureScale |-> {"NormalTexture"},
    bindEmissiveTexture |-> {"EmissiveTexture"},
    setTextureMatrix |-> {"TextureTransformation"},
    bindClearCoatFactorTexture |-> {"ClearCoatTexture", "ClearCoatLayer"},
    bindClearCoatRoughnessTexture |->
      {"ClearCoatRoughnessTexture", "ClearCoatLayer"},
    bindClearCoatNormalTexture |-> {"ClearCoatNormalTexture", "ClearCoatLayer"},
    bindSpecularLayerTexture |-> {"SpecularLayerTexture", "SpecularLayer"},
    bindSpecularLayerColorTexture |->
      {"SpecularLayerColorTexture", "SpecularLayer"},
    bindAnisotropyLayerTexture |-> {"AnisotropyLayerTexture", "AnisotropyLayer"},
    bindIrradianceCubeMap |-> {"ImageBasedLighting"},
    bindBrdfLUT |-> {"ImageBasedLighting"},
    bindPrefilteredMap |-> {"ImageBasedLighting"},
    setPrefilteredMapMipLevels |-> {"ImageBasedLighting"},
    bindPointShadowMap |-> {"ShadowsVSM"} ]

C21_GuardedCallsOnlyWithFlag ==
  last.op = "draw" =>
     /\ last.violation # "shader"
     /\ \A i \in 1..Len(last.calls) :
           last.calls[i][1] \in DOMAIN C21_Guard =>
              /\ Holds(last.d)
              /\ C21_Guard[last.calls[i][1]] \subseteq Inst(last.d).flags_

C21_Witness ==
  /\ Drew /\ last.violation = ""
  /\ materialData_[last.d] = MatLayered
  /\ {"ImageBasedLighting", "ShadowsVSM"} \subseteq Inst(last.d).flags_
  /\ CallsOf("bindClearCoatNormalTexture") # {}
  /\ CallsOf("setPrefilteredMapMipLevels") # {}
  /\ ShadowMapsBound = {0, 1}
  /\ CallsOf("bindClearCoatFactorTexture") = {}

\* C22: a draw of a drawable whose mesh does not exist violates the
\* precondition of draw and has no effect: the manager is not asked for a
\* shader and none is constructed, the winding stays, nothing is uploaded
\* and the mesh is not drawn.
C22_Step ==
  \A d \in Drawables, det \in DetValues, ids \in BOOLEAN :
     (Draw(d, det, ids) /\ ~meshExists[d]) =>
        /\ last'.violation = "mesh"
        /\ resources' = resources /\ shader_' = shader_
        /\ ~last'.lookedUp /\ ~last'.built
        /\ last'.constructed = NoConstruction
        /\ frontFace' = frontFace
        /\ last'.calls = <<>>

\* C22, over every step.
C22_NoMeshNoEffect == [][C22_Step]_vars

C22_Witness ==
  /\ last.op = "draw" /\ last.violation = "mesh" /\ last.normalDet < 0
  /\ ~halted /\ alive[last.d] /\ ~meshExists[last.d]
  /\ lightCountOf(last.d) = 1
  /\ shader_[last.d] = NoKey /\ resources = <<>>

\* C23: after a LightSetup that drawables share has changed, the draw of any
\* drawable that refers to it binds a variant whose light count is the
\* number of its lights now and uploads the colours and the vectors of
\* these lights, so that the lengths uploaded are the light count of the
\* variant and setLightColors and setLightVectors are not refused.
C23_SharedLightsSeenOnDraw ==
  last.op = "draw" =>
     LET lights == lightSetups[lightSetup_[last.d]] IN
     /\ Holds(last.d)
     /\ Inst(last.d).lightCount_ = Len(lights)
     /\ CallsOf("setLightColors") = { [i \in 1..Len(lights) |-> lights[i].color] }
     /\ CallsOf("setLightVectors") # {}
     /\ \A v \in CallsOf("setLightVectors") :
           /\ Len(v) = Inst(last.d).lightCount_
           /\ \A i \in 1..Len(lights) :
                 v[i] = IF lights[i].vector[4] = 1 THEN lights[i].vector
                        ELSE << 0 - lights[i].vector[1], 0 - lights[i].vector[2],
                                0 - lights[i].vector[3], 0 >>
     /\ last.violation = ""

C23_Witness ==
  /\ last.op = "draw" /\ last.d = 2
  /\ alive[1] /\ lightSetup_[1] = "default" /\ lightSetup_[2] = "default"
  /\ lightSetups["default"] = <<PointLight, DirectionalLight>>
  /\ Holds(1) /\ Inst(1).lightCount_ = 1
  /\ Holds(2) /\ Inst(2).lightCount_ = 2
  /\ CallsOf("setLightColors") = { <<50, 100>> }

\* The calls of the constructor of the variant the last draw constructed.
ConstructorCallsOf(f) ==
  LET c == last.constructed.calls IN
  {c[i][2] : i \in {k \in 1..Len(c) : c[k][1] = f}}

\* C24: every upload of a parameter, by the defaults of the constructor or
\* by a draw, goes through a handle the constructor resolved for the
\* variant; the constructor resolves the handle of an optional feature only
\* when the variant has the feature.
C24_UploadsThroughResolvedHandles ==
  Drew =>
     LET sh == Inst(last.d)
         resolved == uniformLocations(sh.flags_, sh.lightCount_) IN
     /\ \A i \in 1..Len(last.calls) :
           CallOk(sh, last.calls[i]) =>
              UniformOf(sh, last.calls[i]) \in resolved \cup {""}
     /\ \A i \in 1..Len(last.constructed.calls) :
           UniformOf(sh, last.constructed.calls[i])
              \in last.constructed.uniforms \cup {""}

\* C25: after a draw that completed, the scalars and colours matCache holds
\* for the base material and for every layer whose flag is set (clearcoat,
\* specular, anisotropy, transmission, volume) have been uploaded as
\* extraction stored them; the anisotropy value uploaded is the direction
\* (cos, sin of the rotation) extraction stored.
C25_Sent(methods, v) == \E f \in methods : <<v>> \in CallsOf(f)

C25_KnownSetters ==
  {"setObjectId", "setNormalMatrix", "setBaseColor", "setRoughness",
   "setMetallic", "setIndexOfRefraction", "setEmissiveColor",
   "setNormalTextureScale", "setTextureMatrix", "setClearCoatFactor",
   "setClearCoatRoughness", "setClearCoatNormalTextureScale",
   "setSpecularLayerFactor", "setSpecularLayerColorFactor",
   "setAnisotropyLayerFactor", "setAnisotropyLayerDirection",
   "setAnisotropyLayerRotation", "setLightColors", "setLightVectors"}

\* A call that is none of the above, a setter of another layer, carries v.
C25_SentByAnother(v) ==
  \E i \in 1..Len(last.calls) :
     /\ last.calls[i][1] \notin C25_KnownSetters
     /\ last.calls[i][2] = <<v>>

C25_SnapshotUploaded ==
  (Drew /\ last.violation = "" /\ CallsOf("draw") # {}) =>
     LET mc == matCache[last.d]
         fl == flags_[last.d] IN
     /\ C25_Sent({"setBaseColor"}, mc.baseColor)
     /\ C25_Sent({"setRoughness"}, mc.roughness)
     /\ C25_Sent({"setMetallic"}, mc.metalness)
     /\ C25_Sent({"setIndexOfRefraction"}, mc.ior_Index)
     /\ C25_Sent({"setEmissiveColor"}, mc.emissiveColor)
     /\ "ClearCoatLayer" \in fl =>
           /\ C25_Sent({"setClearCoatFactor"}, mc.clearCoat.factor)
           /\ C25_Sent({"setClearCoatRoughness"}, mc.clearCoat.roughnessFactor)
     /\ "SpecularLayer" \in fl =>
           /\ C25_Sent({"setSpecularLayerFactor"}, mc.specularLayer.factor)
           /\ C25_Sent({"setSpecularLayerColorFactor"},
                       mc.specularLayer.colorFactor)
     /\ "AnisotropyLayer" \in fl =>
           /\ C25_Sent({"setAnisotropyLayerFactor"}, mc.anisotropyLayer.factor)
           /\ C25_Sent({"setAnisotropyLayerDirection",
                        "setAnisotropyLayerRotation"},
                       mc.anisotropyLayer.direction)
     /\ "TransmissionLayer" \in fl =>
           C25_SentByAnother(mc.transmissionLayer.factor)
     /\ "VolumeLayer" \in fl =>
           /\ C25_SentByAnother(mc.volumeLayer.thicknessFactor)
           /\ C25_SentByAnother(mc.volumeLayer.attenuationDist)
           /\ C25_SentByAnother(mc.volumeLayer.attenuationColor)

\* The shaders the manager holds.
Variants ==
  {Val(resources[k].data) : k \in {x \in DOMAIN resources : Has(resources[x].data)}}

\* The bits of the texture flags of the base material and of the layers.
TextureBits ==
  {"BaseColorTexture", "NoneRoughnessMetallicTexture", "NormalTexture",
   "EmissiveTexture", "ClearCoatTexture", "ClearCoatRoughnessTexture",
   "ClearCoatNormalTexture", "SpecularLayerTexture",
   "SpecularLayerColorTexture", "AnisotropyLayerTexture",
   "TransmissionLayerTexture", "VolumeLayerThicknessTexture"}

C26_Lit(sh) == sh.lightCount_ > 0 \/ "ImageBasedLighting" \in sh.flags_

\* C26 as stated: a variant is lit exactly when its light count is above 0
\* or it has the IBL flag, and textured exactly when it has a texture flag
\* of the base material or of a layer; a variant with no texture flag is
\* not textured.
C26_TexturedIffTextureFlag ==
  \A sh \in Variants :
     /\ sh.lightingIsEnabled_ <=> C26_Lit(sh)
     /\ sh.isTextured_ <=> sh.flags_ \cap TextureBits # {}

\* C26, amended: a variant is lit exactly when its light count is above 0
\* or it has the IBL flag, and textured exactly when it has a texture flag
\* of the base material or of a layer, or the anisotropy layer flag; a
\* variant with neither is not textured.
C26_TexturedIffTextureOrAnisotropy ==
  \A sh \in Variants :
     /\ sh.lightingIsEnabled_ <=> C26_Lit(sh)
     /\ sh.isTextured_ <=> \/ sh.flags_ \cap TextureBits # {}
                           \/ "AnisotropyLayer" \in sh.flags_

C26_Witness ==
  \E sh \in Variants :
     /\ "AnisotropyLayer" \in sh.flags_
     /\ sh.flags_ \cap TextureBits = {}
     /\ sh.isTextured_
     /\ sh.lightCount_ = 0 /\ sh.lightingIsEnabled_

\* The definitions of the sources of the variant the last draw
\* constructed.
Defines ==
  LET src == last.constructed.sources IN
  UNION {src[i].defines : i \in 1..Len(src)}

\* The macros defined under a test of flag f.
MacrosOf(f) == {x.macro : x \in {y \in Defines : f \in y.flags}}

\* The flags the definitions are written under a test of.
SourceFlags == UNION {x.flags : x \in Defines}

\* C27 as stated: the build configuration of a variant has the macro of a
\* feature only if the flag of the feature is set, and no flag gives it
\* more than one macro.
C27_OneSwitchPerFlag ==
  (Drew /\ last.built) =>
     \A f \in SourceFlags :
        /\ f \in Inst(last.d).flags_
        /\ Cardinality(MacrosOf(f)) <= 1

\* C27, amended: the build configuration of a variant has the macros of a
\* feature only if the flag of the feature is set; ImageBasedLighting gives
\* it two feature macros, IMAGE_BASED_LIGHTING and TONE_MAP, and every
\* other flag one; besides these, the attribute location
\* ATTRIBUTE_LOCATION_TANGENT4 is defined exactly when NormalTexture and
\* PrecomputedTangent are set and the variant is lit.
C27_OneSwitchPerFlagButIbl ==
  (Drew /\ last.built) =>
     LET sh == Inst(last.d) IN
     /\ \A f \in SourceFlags :
           /\ f \in sh.flags_
           /\ IF f = "ImageBasedLighting"
              THEN MacrosOf(f) = {"IMAGE_BASED_LIGHTING", "TONE_MAP"}
              ELSE Cardinality(MacrosOf(f) \ {"ATTRIBUTE_LOCATION_TANGENT4"}) = 1
     /\ "ATTRIBUTE_LOCATION_TANGENT4" \in {x.macro : x \in Defines}
           <=> /\ {"NormalTexture", "PrecomputedTangent"} \subseteq sh.flags_
               /\ sh.lightingIsEnabled_

C27_Witness ==
  /\ Drew /\ last.built
  /\ {"ImageBasedLighting", "NormalTexture", "PrecomputedTangent"}
        \subseteq Inst(last.d).flags_
  /\ "TextureTransformation" \notin Inst(last.d).flags_
  /\ MacrosOf("ImageBasedLighting") = {"IMAGE_BASED_LIGHTING", "TONE_MAP"}
  /\ MacrosOf("NormalTexture") =
        {"NORMAL_TEXTURE", "ATTRIBUTE_LOCATION_TANGENT4"}
  /\ MacrosOf("PrecomputedTangent") =
        {"PRECOMPUTED_TANGENT", "ATTRIBUTE_LOCATION_TANGENT4"}
  /\ MacrosOf("TextureTransformation") = {}

\* C28: the constructor sets the weights of direct and image based
\* lighting to 0.5 each exactly when the variant has lights and the IBL
\* flag, and to the full weight otherwise; with lights, it gives every
\* light slot the directional fill light (0,0,-1,0), colour 1 and an
\* infinite range.
C28_ConstructorDefaults ==
  (Drew /\ last.built) =>
     LET n == Inst(last.d).lightCount_
         mixed == n > 0 /\ "ImageBasedLighting" \in Inst(last.d).flags_ IN
     /\ ConstructorCallsOf("setPbrEquationScales") =
           { << IF mixed THEN <<50, 50, 50, 50>> ELSE <<100, 100, 100, 100>> >> }
     /\ n > 0 =>
           /\ ConstructorCallsOf("setLightVectors") =
                 { [i \in 1..n |-> <<0, 0, -1, 0>>] }
           /\ ConstructorCallsOf("setLightColors") = { [i \in 1..n |-> 100] }
           /\ ConstructorCallsOf("setLightRanges") = { [i \in 1..n |-> Inf] }

C28_Witness ==
  /\ Drew /\ last.built
  /\ Inst(last.d).lightCount_ = 1
  /\ "ImageBasedLighting" \in Inst(last.d).flags_
  /\ ConstructorCallsOf("setPbrEquationScales") = { << <<50, 50, 50, 50>> >> }
  /\ ConstructorCallsOf("setLightVectors") = { << <<0, 0, -1, 0>> >> }

=============================================================================
